---- MODULE Spec2Model ----
(***************************************************************************)
(* A model of the lspower runtime: the pending-request registries          *)
(* (src/jsonrpc/pending.rs), the client handle's request path              *)
(* (src/client.rs), and the service with its lifecycle state               *)
(* (src/service.rs, src/server.rs).  The dispatch of server-bound          *)
(* messages, generated_impl::handle_request, is produced by the #[rpc]     *)
(* macro; it is modelled after the dispatch table of the specification     *)
(* (section 4.5) and the tests of src/lib.rs and src/service.rs.           *)
(* Further sections model the initialization gate of the Client handle's   *)
(* operations and the cancellation token (src/client.rs), the frame codec  *)
(* with its nom parser (src/codec.rs), and the transport loop; the code of *)
(* the loop, transport.rs, is not among the sources, and the loop follows  *)
(* section 4.7 of the specification.  Client::telemetry_event, the         *)
(* conversions of ErrorCode (src/jsonrpc/error.rs) and the cancellation    *)
(* path of send_request on request IDs around i32::MAX, written as         *)
(* hi * 2^31 + lo, have sections of their own.                             *)
(*                                                                         *)
(* Granularity: one action is one call of a synchronous method, or one     *)
(* poll of a future that makes progress; a poll runs to its next await     *)
(* without interleaving.  Every DashMap operation is atomic (entry, insert *)
(* and remove lock the key's shard).  Steps may interleave freely between  *)
(* polls: a send to the sink may suspend, and futures may be polled by     *)
(* different tasks.                                                        *)
(*                                                                         *)
(* A panic on the client side stops the client side (panicked # "none").   *)
(* Request IDs stay far below 2^64, so fetch_add never wraps here.         *)
(*                                                                         *)
(* Option<T> is modelled as a set: None is {} and Some(x) is {x}.          *)
(***************************************************************************)
EXTENDS Integers, Sequences, FiniteSets, TLC

(***************************************************************************)
(* Bounds of the model.                                                    *)
(***************************************************************************)
\* Request IDs the peer uses for server-bound requests: 1..NumIds.
NumIds == 2
\* Number of ServerRequests::execute calls in a run.
MaxExec == 3
\* Number of ServerRequests::execute calls in a run under the fair scheduler.
MaxFairExec == 2
\* Request IDs range up to MaxHi * 2^31 + 2^31 - 1.
MaxHi == 2
\* Number of Client::send_request calls in a run.
MaxCalls == 2
\* Number of requests the service passes to ServerRequests::execute in a run.
MaxRouted == 2
\* Number of messages in the outbound sink up to which the operations of
\* the Client handle are called.
MaxSent == 2
\* Number of frames and runs of garbage the peer writes in a run.
MaxItems == 2
\* Number of TokenCanceller::cancel calls in a run.
MaxCancels == 2
\* Number of tokens made from a canceller in a run.
MaxTokens == 2
\* Number of messages the peer writes to the transport loop in a run.
MaxInput == 2
\* How far around each reserved error code the codes of ServerError range.
CodeSpread == 2

Ids == 1 .. NumIds

None == {}

Some(x) == {x}

(***************************************************************************)
(* jsonrpc::ErrorCode::code and jsonrpc::Error::new.                       *)
(***************************************************************************)
ParseError == -32700
InvalidRequest == -32600
InternalError == -32603
RequestCancelled == -32800
\* The largest request ID that i32::try_from accepts.
I32_MAX == 2147483647

description(code) ==
    CASE code = ParseError -> "Parse error"
      [] code = InvalidRequest -> "Invalid request"
      [] code = InternalError -> "Internal error"
      [] code = RequestCancelled -> "Canceled"
      [] OTHER -> "Server error"

Error_new(code) == [code |-> code, message |-> description(code)]

invalid_request == Error_new(InvalidRequest)

internal_error == Error_new(InternalError)

request_cancelled == Error_new(RequestCancelled)

\* The error field of a successful response and the result field of a failed one.
NoError == [code |-> 0, message |-> ""]

NoValue == "-"

(***************************************************************************)
(* jsonrpc::Response: ok, error, from_parts, into_parts, id.               *)
(* A handler result Result<Value> is [ok, val, err].                       *)
(***************************************************************************)
Ok(v) == [ok |-> TRUE, val |-> v, err |-> NoError]

Err(e) == [ok |-> FALSE, val |-> NoValue, err |-> e]

Response_ok(id, result) == [id |-> Some(id), body |-> Ok(result)]

Response_error(optid, error) == [id |-> optid, body |-> Err(error)]

\* Mutant: a handler's error is replaced by Invalid request.
Response_from_parts_masked(id, body) ==
    IF body.ok THEN Response_ok(id, body.val) ELSE Response_error(Some(id), invalid_request)

Response_from_parts(id, body) ==
    IF body.ok THEN Response_ok(id, body.val) ELSE Response_error(Some(id), body.err)

Response_into_parts(r) == <<r.id, r.body>>

Response_id(r) == r.id

\* What a backend handler can return: a value, or an error of its own.
HandlerResults == {Ok("v"), Err(internal_error)}

VARIABLES
    pending_server,  \* ServerRequests.0: request ID -> the execute call whose
                     \* AbortHandle is stored (0: vacant)
    futs,            \* one record per execute call, in call order: the future
                     \* it returned and the handler (Abortable) it owns
    request_id,      \* ClientInner.request_id
    pending_client,  \* ClientRequests.0: request ID -> the send_request call
                     \* whose oneshot::Sender is stored (0: vacant)
    outbound,        \* every message pushed to the mpsc sink, in order
    sink_closed,     \* the receiving side of the sink (MessageStream) is gone
    calls,           \* one record per send_request call, in call order
    panicked,        \* the message of the panic that stopped the client side
    last,            \* the ServerRequests operation that made the last step
    state,           \* server::State, shared by the service and the client
    initializing,    \* the ID of the initialize request whose handler runs
    methods,         \* the method of each execute call the service made
    init_ok,         \* how often the backend's initialize returned Ok
    init_err,        \* the backend's initialize has returned Err
    shutdown_invoked, \* how often the backend's shutdown was started
    exited,          \* an exit notification has been handled
    svc_last,        \* the last step of the service and what it yielded
    client_last,     \* the last operation of the Client handle: the state it
                     \* read and what it returned
    src,             \* the read buffer the decoder works on
    remaining_msg_bytes, \* LanguageServerCodec.remaining_msg_bytes
    wire,            \* the bytes of the input that have not been read yet
    items,           \* how many frames and runs of garbage the peer has written
    decoded,         \* what the last decode returned
    canceller,       \* a TokenCanceller, its oneshot channel, and its calls
    tokens,          \* the CancellationTokens made from it, in order, each
                     \* with what is_cancelled() and a poll of wait() gave last
    input,           \* the incoming messages the peer wrote, not yet read
    eof,             \* the peer has closed the input
    transport,       \* where the transport loop is
    responses,       \* responses captured by ingress, not yet written
    drained,         \* how many messages of the side channel egress has taken
    written,         \* what egress wrote to the output sink, in order
    stopped_with,    \* the side channel's messages at the stop of ingress
    error_code,      \* an ErrorCode, its integer on the wire, and what the
                     \* integer deserializes to
    id_calls,        \* send_request calls by the 64-bit ID they drew
    cancel_sent      \* the CancelParams sent by their cancellation paths

svars == <<pending_server, futs>>

cvars == <<request_id, pending_client, outbound, sink_closed, calls, panicked>>

lvars == <<state, initializing, methods, init_ok, init_err, shutdown_invoked, exited, svc_last>>

\* The variables of the components modelled further below.
gvars == <<client_last>>

dvars == <<src, remaining_msg_bytes, wire, items, decoded>>

kvars == <<canceller, tokens>>

xvars == <<input, eof, transport, responses, drained, written, stopped_with>>

evars == <<error_code>>

nvars == <<id_calls, cancel_sent>>

ovars == <<gvars, dvars, kvars, xvars, evars, nvars>>

vars == <<svars, cvars, last, lvars, ovars>>

(***************************************************************************)
(* ServerRequests                                                          *)
(***************************************************************************)
\* A handler that was started by execute and has neither completed nor been aborted.
Live(f) ==
    /\ futs[f].branch = "Left"
    /\ futs[f].handler = "pending"
    /\ ~futs[f].aborted

NewFut(id, branch, handler) ==
    [id |-> id, branch |-> branch, handler |-> handler, aborted |-> FALSE,
     aborts |-> 0, res |-> None, out |-> None]

\* AbortHandle::abort on the handle of execute call f; `aborts` counts the calls.
Abort(fs, f) ==
    [fs EXCEPT ![f].aborted = TRUE, ![f].aborts = @ + 1]

\* Mutant: a duplicate ID cancels the first handler and installs the second.
ServerRequests_execute_replace(id) ==
    /\ Len(futs) < MaxExec
    /\ LET f == Len(futs) + 1
           old == pending_server[id]
           fs == IF old = 0 THEN futs ELSE Abort(futs, old)
       IN /\ pending_server' = [pending_server EXCEPT ![id] = f]
          /\ futs' = Append(fs, NewFut(id, "Left", "pending"))
    /\ last' = <<"execute", id>>
    /\ UNCHANGED <<cvars, lvars, ovars>>

\* ServerRequests::execute(id, fut): the synchronous part, as its effect on
\* the registry and on the futures.
Execute(id) ==
    /\ Len(futs) < MaxExec
    /\ LET f == Len(futs) + 1
       IN IF pending_server[id] = 0
          THEN \* Entry::Vacant: store the abort handle, return Either::Left
               /\ pending_server' = [pending_server EXCEPT ![id] = f]
               /\ futs' = Append(futs, NewFut(id, "Left", "pending"))
          ELSE \* occupied: `fut` is dropped unpolled, return Either::Right
               /\ pending_server' = pending_server
               /\ futs' = Append(futs, NewFut(id, "Right", "dropped"))

\* ServerRequests::execute called on its own.
ServerRequests_execute(id) ==
    /\ Execute(id)
    /\ last' = <<"execute", id>>
    /\ UNCHANGED <<cvars, lvars, ovars>>

\* A future that has yielded its response and was dropped by its caller.
Gone ==
    [id |-> 0, branch |-> "Gone", handler |-> "dropped", aborted |-> FALSE,
     aborts |-> 0, res |-> None, out |-> None]

\* The futures after future f has yielded: its record is kept with the
\* response it yielded, or the future is dropped.
Yielded(fs, f, keep) == IF keep THEN fs ELSE [fs EXCEPT ![f] = Gone]

\* Mutant: the future yields the handler's response without removing the
\* entry under its ID.
Complete_keep_entry(f, res, keep) ==
    /\ f \in 1 .. Len(futs)
    /\ futs[f].branch = "Left"
    /\ futs[f].out = None
    /\ ~futs[f].aborted
    /\ futs' = Yielded([futs EXCEPT ![f].handler = "completed",
                                    ![f].res = Some(res),
                                    ![f].out = Some(Response_from_parts(futs[f].id, res))],
                       f, keep)
    /\ pending_server' = pending_server

\* A poll of the Left future in which the handler completes with `res`:
\* Abortable yields Ok(res), the entry under id is removed, the response is
\* from_parts(id, res).
Complete(f, res, keep) ==
    /\ f \in 1 .. Len(futs)
    /\ futs[f].branch = "Left"
    /\ futs[f].out = None
    /\ ~futs[f].aborted
    /\ futs' = Yielded([futs EXCEPT ![f].handler = "completed",
                                    ![f].res = Some(res),
                                    ![f].out = Some(Response_from_parts(futs[f].id, res))],
                       f, keep)
    /\ pending_server' = [pending_server EXCEPT ![futs[f].id] = 0]

\* Such a poll of a future whose handler changes nothing else.
PollComplete(f, res) ==
    /\ Complete(f, res, TRUE)
    /\ last' = <<"poll_complete", futs[f].id>>
    /\ UNCHANGED <<cvars, lvars, ovars>>

\* A poll of the Left future after its handle was aborted: Abortable yields
\* Err(Aborted) without polling the handler, the entry under id is removed,
\* the response is error(id, request_cancelled).
Aborted(f, keep) ==
    /\ f \in 1 .. Len(futs)
    /\ futs[f].branch = "Left"
    /\ futs[f].out = None
    /\ futs[f].aborted
    /\ futs' = Yielded([futs EXCEPT ![f].handler = "dropped",
                                    ![f].out = Some(Response_error(Some(futs[f].id), request_cancelled))],
                       f, keep)
    /\ pending_server' = [pending_server EXCEPT ![futs[f].id] = 0]

\* Such a poll of a future returned by execute called on its own.
PollAborted(f) ==
    /\ Aborted(f, TRUE)
    /\ last' = <<"poll_aborted", futs[f].id>>
    /\ UNCHANGED <<cvars, lvars, ovars>>

\* A poll of the Right future.
Right(f, keep) ==
    /\ f \in 1 .. Len(futs)
    /\ futs[f].branch = "Right"
    /\ futs[f].out = None
    /\ futs' = Yielded([futs EXCEPT ![f].out = Some(Response_error(Some(futs[f].id), invalid_request))],
                       f, keep)
    /\ UNCHANGED pending_server

\* Such a poll of a future returned by execute called on its own.
PollRight(f) ==
    /\ Right(f, TRUE)
    /\ last' = <<"poll_right", futs[f].id>>
    /\ UNCHANGED <<cvars, lvars, ovars>>

\* Mutant: the handle is aborted but its entry is kept.
ServerRequests_cancel_keep(id) ==
    /\ IF pending_server[id] # 0
       THEN /\ futs' = Abort(futs, pending_server[id])
            /\ pending_server' = pending_server
            /\ last' = <<"cancel", id>>
       ELSE /\ UNCHANGED <<pending_server, futs>>
            /\ last' = <<"cancel_absent", id>>
    /\ UNCHANGED <<cvars, lvars, ovars>>

\* ServerRequests::cancel(id), as its effect on the registry and the futures.
Cancel(id) ==
    IF pending_server[id] # 0
    THEN /\ futs' = Abort(futs, pending_server[id])
         /\ pending_server' = [pending_server EXCEPT ![id] = 0]
    ELSE UNCHANGED <<pending_server, futs>>

\* ServerRequests::cancel called on its own.
ServerRequests_cancel(id) ==
    /\ Cancel(id)
    /\ last' = IF pending_server[id] # 0 THEN <<"cancel", id>>
               ELSE <<"cancel_absent", id>>
    /\ UNCHANGED <<cvars, lvars, ovars>>

RECURSIVE AbortAll(_, _)
AbortAll(fs, S) ==
    IF S = {} THEN fs
    ELSE LET f == CHOOSE x \in S : TRUE
         IN AbortAll(Abort(fs, f), S \ {f})

Registered == {pending_server[i] : i \in Ids} \ {0}

\* Mutant: the entries are dropped without triggering their abort handles.
ServerRequests_cancel_all_noabort ==
    /\ pending_server' = [i \in Ids |-> 0]
    /\ futs' = futs
    /\ last' = <<"cancel_all", 0>>
    /\ UNCHANGED <<cvars, lvars, ovars>>

\* ServerRequests::cancel_all(): retain(|_, handle| { handle.abort(); false }),
\* as its effect on the registry and the futures.
CancelAll ==
    /\ pending_server' = [i \in Ids |-> 0]
    /\ futs' = AbortAll(futs, Registered)

\* ServerRequests::cancel_all called on its own.
ServerRequests_cancel_all ==
    /\ CancelAll
    /\ last' = <<"cancel_all", 0>>
    /\ UNCHANGED <<cvars, lvars, ovars>>

InitServer ==
    /\ pending_server = [i \in Ids |-> 0]
    /\ futs = <<>>
    /\ last = <<"new", 0>>

NextServer ==
    \/ \E id \in Ids : ServerRequests_execute(id)
    \/ \E f \in 1 .. MaxExec, res \in HandlerResults : PollComplete(f, res)
    \/ \E f \in 1 .. MaxExec : PollAborted(f)
    \/ \E f \in 1 .. MaxExec : PollRight(f)
    \/ \E id \in Ids : ServerRequests_cancel(id)
    \/ ServerRequests_cancel_all

(***************************************************************************)
(* ClientRequests and Client::send_request                                 *)
(***************************************************************************)
\* Request IDs of the client side: those send_request can draw within the
\* bound, and one more that no call ever uses.
ClientIds == 0 .. MaxCalls

\* JSON values a response can carry, for a request whose Result type is ():
\* null deserializes, a number does not.
Values == {"null", "18446744073709551615"}

\* serde_json::from_value::<()>(v).map_err(|e| Error { code: ParseError, .. })
from_value(v) ==
    IF v = "null" THEN Ok(v)
    ELSE Err([code |-> ParseError, message |-> "invalid type: integer, expected unit"])

\* result.and_then(|v| from_value(v)...) on the body of a response
and_then_from_value(body) == IF body.ok THEN from_value(body.val) ELSE body

\* The responses the peer can send.
PeerResponses ==
    {[id |-> i, body |-> b] :
        i \in {None} \cup {Some(n) : n \in ClientIds},
        b \in {Ok(v) : v \in Values} \cup {Err(invalid_request)}}

\* ClientRequest::request and ClientRequest::notification::<Cancel>
ClientRequest_request(id) ==
    [method |-> "custom/request", id |-> Some(id), params |-> None]

Cancel_notification(id) ==
    [method |-> "$/cancelRequest", id |-> None, params |-> Some(id)]

\* CancellationToken::wait is ready: the oneshot behind the Shared future has
\* resolved, with Ok(()) after cancel() or with Err(Canceled) after the
\* canceller and its sender were dropped.
token_wait_ready(tok) == tok \in {"cancelled", "dropped"}

Tokens == {"none", "armed", "cancelled", "dropped"}

NewCall(id, tok, pc, result) ==
    [id |-> id, tok |-> tok, pc |-> pc, rx |-> None, result |-> result,
     ready |-> {}, first |-> IF tok = "cancelled" THEN "token" ELSE "none"]

\* Mutant: the request is registered but not pushed to the sink before the
\* select.
Client_send_request_unsent(tok) ==
    /\ panicked = "none"
    /\ Len(calls) < MaxCalls
    /\ LET id == request_id
           c == Len(calls) + 1
       IN /\ request_id' = id + 1
          /\ pending_client' = [pending_client EXCEPT ![id] = c]
          /\ calls' = Append(calls, NewCall(id, tok, "select", None))
    /\ UNCHANGED <<outbound, sink_closed, panicked>>
    /\ UNCHANGED <<svars, last, lvars, ovars>>

\* Mutant: the ID is read from the counter without incrementing it.
Client_send_request_load(tok) ==
    /\ panicked = "none"
    /\ Len(calls) < MaxCalls
    /\ LET id == request_id
           c == Len(calls) + 1
       IN /\ request_id' = id
          /\ IF pending_client[id] # 0
             THEN /\ panicked' = "concurrent waits for the same request ID"
                  /\ UNCHANGED <<pending_client, outbound, calls>>
             ELSE /\ pending_client' = [pending_client EXCEPT ![id] = c]
                  /\ panicked' = panicked
                  /\ IF sink_closed
                     THEN /\ outbound' = outbound
                          /\ calls' = Append(calls, NewCall(id, tok, "done", Some(Err(internal_error))))
                     ELSE /\ outbound' = Append(outbound, ClientRequest_request(id))
                          /\ calls' = Append(calls, NewCall(id, tok, "select", None))
    /\ UNCHANGED sink_closed
    /\ UNCHANGED <<svars, last, lvars, ovars>>

\* Client::send_request up to the select, as its effect on the client side:
\* fetch_add, ClientRequests::wait, and the send of the request to the sink.
SendRequest(tok) ==
    /\ Len(calls) < MaxCalls
    /\ LET id == request_id
           c == Len(calls) + 1
       IN /\ request_id' = id + 1
          /\ IF pending_client[id] # 0
             THEN \* ClientRequests::wait: the entry is occupied
                  /\ panicked' = "concurrent waits for the same request ID"
                  /\ UNCHANGED <<pending_client, outbound, calls>>
             ELSE /\ pending_client' = [pending_client EXCEPT ![id] = c]
                  /\ panicked' = panicked
                  /\ IF sink_closed
                     THEN \* sender.send(message) fails: Err(internal_error)
                          /\ outbound' = outbound
                          /\ calls' = Append(calls, NewCall(id, tok, "done", Some(Err(internal_error))))
                     ELSE /\ outbound' = Append(outbound, ClientRequest_request(id))
                          /\ calls' = Append(calls, NewCall(id, tok, "select", None))
    /\ UNCHANGED sink_closed

\* Mutant: the request is pushed to the sink without registering its ID.
Client_send_request_unregistered(tok) ==
    /\ panicked = "none"
    /\ Len(calls) < MaxCalls
    /\ LET id == request_id
       IN /\ request_id' = id + 1
          /\ IF sink_closed
             THEN /\ outbound' = outbound
                  /\ calls' = Append(calls, NewCall(id, tok, "done", Some(Err(internal_error))))
             ELSE /\ outbound' = Append(outbound, ClientRequest_request(id))
                  /\ calls' = Append(calls, NewCall(id, tok, "select", None))
    /\ UNCHANGED <<pending_client, sink_closed, panicked>>
    /\ UNCHANGED <<svars, last, lvars, ovars>>

\* Client::send_request called on its own.
Client_send_request(tok) ==
    /\ panicked = "none"
    /\ SendRequest(tok)
    /\ UNCHANGED <<svars, last, lvars, ovars>>

\* The arms of the select! that are ready when call c is polled.
ReadyArms(c) ==
    (IF token_wait_ready(calls[c].tok) THEN {"token"} ELSE {})
        \cup (IF calls[c].rx # None THEN {"response"} ELSE {})

\* Mutant: the cancellation path leaves the pending entry in place.
Client_select_token_keep(c) ==
    /\ panicked = "none"
    /\ c \in 1 .. Len(calls)
    /\ calls[c].pc = "select"
    /\ "token" \in ReadyArms(c)
    /\ outbound' = IF sink_closed THEN outbound
                   ELSE Append(outbound, Cancel_notification(calls[c].id))
    /\ calls' = [calls EXCEPT ![c].pc = "done", ![c].ready = ReadyArms(c),
                              ![c].result = Some(Err(request_cancelled))]
    /\ UNCHANGED <<request_id, pending_client, sink_closed, panicked>>
    /\ UNCHANGED <<svars, last, lvars, ovars>>

\* A poll of send_request's select! that takes the token_wait arm: remove
\* the pending entry, convert the ID, send $/cancelRequest, yield
\* Err(request_cancelled).
Client_select_token(c) ==
    /\ panicked = "none"
    /\ c \in 1 .. Len(calls)
    /\ calls[c].pc = "select"
    /\ "token" \in ReadyArms(c)
    /\ pending_client' = [pending_client EXCEPT ![calls[c].id] = 0]
    /\ IF calls[c].id > I32_MAX
       THEN \* i32::try_from(id).expect(..)
            /\ panicked' = "error converting u64 to i32"
            /\ UNCHANGED <<outbound, calls>>
       ELSE /\ panicked' = panicked
            /\ outbound' = IF sink_closed THEN outbound
                           ELSE Append(outbound, Cancel_notification(calls[c].id))
            /\ calls' = [calls EXCEPT ![c].pc = "done", ![c].ready = ReadyArms(c),
                                      ![c].result = Some(Err(request_cancelled))]
    /\ UNCHANGED <<request_id, sink_closed>>
    /\ UNCHANGED <<svars, last, lvars, ovars>>

\* Mutant: the response arm runs the cancellation code.
Client_select_response_cancels(c) ==
    /\ panicked = "none"
    /\ c \in 1 .. Len(calls)
    /\ calls[c].pc = "select"
    /\ "response" \in ReadyArms(c)
    /\ outbound' = IF sink_closed THEN outbound
                   ELSE Append(outbound, Cancel_notification(calls[c].id))
    /\ calls' = [calls EXCEPT ![c].pc = "done", ![c].ready = ReadyArms(c),
                              ![c].result = Some(Err(request_cancelled))]
    /\ UNCHANGED <<request_id, pending_client, sink_closed, panicked>>
    /\ UNCHANGED <<svars, last, lvars, ovars>>

\* A poll of send_request's select! that takes the response_waiter arm.
Client_select_response(c) ==
    /\ panicked = "none"
    /\ c \in 1 .. Len(calls)
    /\ calls[c].pc = "select"
    /\ "response" \in ReadyArms(c)
    /\ LET r == CHOOSE x \in calls[c].rx : TRUE
           parts == Response_into_parts(r)
       IN calls' = [calls EXCEPT ![c].pc = "done", ![c].ready = ReadyArms(c),
                                 ![c].result = Some(and_then_from_value(parts[2]))]
    /\ UNCHANGED <<request_id, pending_client, outbound, sink_closed, panicked>>
    /\ UNCHANGED <<svars, last, lvars, ovars>>

\* ClientRequests::insert(r), as its effect on the registry and the calls.
\* The receiving side of a call's slot lives as long as the call is at its
\* select.
Insert(r) ==
    /\ IF Response_id(r) = None
       THEN \* warn: request ID of `null`
            UNCHANGED <<pending_client, calls, panicked>>
       ELSE LET id == CHOOSE x \in Response_id(r) : TRUE
                c == pending_client[id]
            IN IF c = 0
               THEN \* warn: unknown request ID
                    UNCHANGED <<pending_client, calls, panicked>>
               ELSE /\ pending_client' = [pending_client EXCEPT ![id] = 0]
                    /\ IF calls[c].pc = "select"
                       THEN /\ calls' = [calls EXCEPT ![c].rx = Some(r),
                                            ![c].first = IF @ = "none" THEN "response" ELSE @]
                            /\ panicked' = panicked
                       ELSE \* tx.send(r).expect(..)
                            /\ panicked' = "receiver already dropped"
                            /\ calls' = calls

\* ClientRequests::insert called on its own.
ClientRequests_insert(r) ==
    /\ panicked = "none"
    /\ Insert(r)
    /\ UNCHANGED <<request_id, outbound, sink_closed>>
    /\ UNCHANGED <<svars, last, lvars, ovars>>

\* TokenCanceller::cancel on the canceller of call c's token, while the call
\* is at its select (a finished call no longer looks at its token).
TokenCanceller_cancel(c) ==
    /\ panicked = "none"
    /\ c \in 1 .. Len(calls)
    /\ calls[c].pc = "select"
    /\ calls[c].tok = "armed"
    /\ calls' = [calls EXCEPT ![c].tok = "cancelled",
                              ![c].first = IF @ = "none" THEN "token" ELSE @]
    /\ UNCHANGED <<request_id, pending_client, outbound, sink_closed, panicked>>
    /\ UNCHANGED <<svars, last, lvars, ovars>>

\* The canceller of call c's token is dropped without cancel(), while the
\* call is at its select.
TokenCanceller_drop(c) ==
    /\ panicked = "none"
    /\ c \in 1 .. Len(calls)
    /\ calls[c].pc = "select"
    /\ calls[c].tok = "armed"
    /\ calls' = [calls EXCEPT ![c].tok = "dropped"]
    /\ UNCHANGED <<request_id, pending_client, outbound, sink_closed, panicked>>
    /\ UNCHANGED <<svars, last, lvars, ovars>>

\* The MessageStream is dropped: every later send to the sink fails.
MessageStream_drop ==
    /\ panicked = "none"
    /\ ~sink_closed
    /\ sink_closed' = TRUE
    /\ UNCHANGED <<request_id, pending_client, outbound, calls, panicked>>
    /\ UNCHANGED <<svars, last, lvars, ovars>>

InitClient ==
    /\ request_id = 0
    /\ pending_client = [i \in ClientIds |-> 0]
    /\ outbound = <<>>
    /\ sink_closed = FALSE
    /\ calls = <<>>
    /\ panicked = "none"

NextClient ==
    \/ \E tok \in Tokens : Client_send_request(tok)
    \/ \E c \in 1 .. MaxCalls : Client_select_token(c)
    \/ \E c \in 1 .. MaxCalls : Client_select_response(c)
    \/ \E r \in PeerResponses : ClientRequests_insert(r)
    \/ \E c \in 1 .. MaxCalls : TokenCanceller_cancel(c)
    \/ \E c \in 1 .. MaxCalls : TokenCanceller_drop(c)
    \/ MessageStream_drop

(***************************************************************************)
(* server::State, LspService and the dispatch of server-bound messages     *)
(***************************************************************************)
\* server::StateKind, by discriminant.
Uninitialized == 0
Initializing == 1
Initialized == 2
ShutDown == 3
Exited == 4

\* jsonrpc::not_initialized_error()
ServerNotInitialized == -32002

\* Mutant: the error of a request that arrives too early is Invalid request.
not_initialized_error_invalid == invalid_request

not_initialized_error ==
    [code |-> ServerNotInitialized, message |-> "Server not initialized"]

\* Methods of the backend that return a result, and methods that do not.
RequestMethods == {"initialize", "shutdown", "textDocument/hover"}

NotificationMethods == {"initialized", "exit", "$/cancelRequest"}

\* Incoming::Request: a message of a request method carries an ID; a message
\* of a notification method may carry one as well; $/cancelRequest names
\* the request it cancels in its params.
ServerRequests ==
    {[kind |-> "Request", method |-> m, id |-> Some(i), params |-> None] :
        m \in RequestMethods, i \in Ids}
    \cup {[kind |-> "Request", method |-> m, id |-> o, params |-> None] :
        m \in {"initialized", "exit"}, o \in {None, Some(1)}}
    \cup {[kind |-> "Request", method |-> "$/cancelRequest", id |-> None,
           params |-> Some(i)] : i \in Ids}

\* Incoming::Response
ClientResponses ==
    {[kind |-> "Response", response |-> r] :
        r \in {x \in PeerResponses : x.body = Ok("null") /\ x.id \in {None, Some(0)}}}

Incoming == ServerRequests \cup ClientResponses

\* What poll_ready and call yield: Err(ExitedError), Ok(()), a future that is
\* ready with Ok(None) or Ok(Some(response)), the future of an execute call,
\* the future that runs the initialize handler; or the call panicked.
ExitedError == [tag |-> "Err(ExitedError)"]

ReadyOk == [tag |-> "Ok(())"]

Ready(out) == [tag |-> "ready", out |-> out]

ExecuteFuture(f) == [tag |-> "execute", fut |-> f]

InitializeFuture(id) == [tag |-> "initialize", id |-> id]

Panicked == [tag |-> "panic"]

\* The record of a step of the service: the operation and what it yielded.
\* A call is recorded with the kind of its message, its method and whether
\* it carried an ID.
Yield(op, ret) == [op |-> op, ret |-> ret]

Call(m) ==
    IF m.kind = "Response" THEN <<"call", "Response">>
    ELSE <<"call", m.method, m.id # None>>

\* Mutant: every request that is not dispatched is answered as one that
\* arrived before initialization.
Refusal_early(req) ==
    Response_error(req.id, not_initialized_error)

\* The response of handle_request to a request method in a state that does
\* not dispatch it.
Refusal(req) ==
    LET id == CHOOSE x \in req.id : TRUE
    IN IF state \in {Uninitialized, Initializing} /\ req.method # "initialize"
       THEN Response_error(Some(id), not_initialized_error)
       ELSE Response_error(Some(id), invalid_request)

\* Mutant: initialize is dispatched again once the server is initialized.
Dispatched_again(req) ==
    /\ req.method \in RequestMethods
    /\ IF req.method = "initialize" THEN state \in {Uninitialized, Initialized}
       ELSE state = Initialized

\* A request method is dispatched to the backend: initialize only in
\* Uninitialized, every other request only in Initialized.
Dispatched(req) ==
    /\ req.method \in RequestMethods
    /\ IF req.method = "initialize" THEN state = Uninitialized ELSE state = Initialized

\* generated_impl::handle_request(server, state, pending, req): the
\* synchronous part, up to the future it returns.
handle_request(req) ==
    CASE req.method = "exit" ->
            /\ CancelAll
            /\ state' = Exited
            /\ exited' = TRUE
            /\ svc_last' = Yield(Call(req), Ready(None))
            /\ UNCHANGED <<initializing, methods, init_ok, init_err, shutdown_invoked>>
      [] req.method = "$/cancelRequest" ->
            /\ IF state = Initialized
               THEN Cancel(CHOOSE x \in req.params : TRUE)
               ELSE UNCHANGED <<pending_server, futs>>
            /\ svc_last' = Yield(Call(req), Ready(None))
            /\ UNCHANGED <<state, initializing, methods, init_ok, init_err, shutdown_invoked, exited>>
      [] req.method = "initialized" ->
            \* Initialized: the backend's initialized runs; otherwise dropped
            /\ svc_last' = Yield(Call(req), Ready(None))
            /\ UNCHANGED <<pending_server, futs>>
            /\ UNCHANGED <<state, initializing, methods, init_ok, init_err, shutdown_invoked, exited>>
      [] req.method \in RequestMethods /\ ~Dispatched(req) ->
            /\ svc_last' = Yield(Call(req), Ready(Some(Refusal(req))))
            /\ UNCHANGED <<pending_server, futs>>
            /\ UNCHANGED <<state, initializing, methods, init_ok, init_err, shutdown_invoked, exited>>
      [] req.method = "initialize" /\ Dispatched(req) ->
            LET id == CHOOSE x \in req.id : TRUE
            IN /\ state' = Initializing
               /\ initializing' = Some(id)
               /\ svc_last' = Yield(Call(req), InitializeFuture(id))
               /\ UNCHANGED <<pending_server, futs>>
               /\ UNCHANGED <<methods, init_ok, init_err, shutdown_invoked, exited>>
      [] req.method \in {"shutdown", "textDocument/hover"} /\ Dispatched(req) ->
            LET id == CHOOSE x \in req.id : TRUE
            IN /\ Len(futs) < MaxRouted
               /\ Execute(id)
               /\ methods' = Append(methods, req.method)
               /\ shutdown_invoked' =
                     IF req.method = "shutdown" /\ pending_server[id] = 0
                     THEN shutdown_invoked + 1 ELSE shutdown_invoked
               /\ svc_last' = Yield(Call(req), ExecuteFuture(Len(futs) + 1))
               /\ UNCHANGED <<state, initializing, init_ok, init_err, exited>>

\* The future handle_request returned for initialize: the backend's
\* initialize returns `res`.
handle_request_initialize(res) ==
    /\ panicked = "none"
    /\ initializing # None
    /\ LET id == CHOOSE x \in initializing : TRUE
       IN svc_last' = Yield(<<"future">>, Ready(Some(Response_from_parts(id, res))))
    /\ state' = IF res.ok THEN Initialized ELSE Uninitialized
    /\ init_ok' = IF res.ok THEN init_ok + 1 ELSE init_ok
    /\ init_err' = (init_err \/ ~res.ok)
    /\ initializing' = None
    /\ UNCHANGED <<methods, shutdown_invoked, exited>>
    /\ UNCHANGED <<svars, cvars, last, ovars>>

\* The future handle_request returned for a request it passed to execute:
\* the backend's handler returns `res`; a successful shutdown moves the
\* state to ShutDown.
handle_request_complete(f, res) ==
    /\ panicked = "none"
    /\ f \in 1 .. Len(methods)
    /\ Complete(f, res, FALSE)
    /\ state' = IF methods[f] = "shutdown" /\ res.ok THEN ShutDown ELSE state
    /\ svc_last' = Yield(<<"future">>, Ready(Some(Response_from_parts(futs[f].id, res))))
    /\ methods' = [methods EXCEPT ![f] = "-"]
    /\ UNCHANGED <<initializing, init_ok, init_err, shutdown_invoked, exited>>
    /\ UNCHANGED <<cvars, last, ovars>>

\* The future handle_request returned for a request it passed to execute,
\* polled after the handler was aborted.
handle_request_aborted(f) ==
    /\ panicked = "none"
    /\ f \in 1 .. Len(methods)
    /\ Aborted(f, FALSE)
    /\ svc_last' = Yield(<<"future">>, Ready(Some(Response_error(Some(futs[f].id), request_cancelled))))
    /\ methods' = [methods EXCEPT ![f] = "-"]
    /\ UNCHANGED <<state, initializing, init_ok, init_err, shutdown_invoked, exited>>
    /\ UNCHANGED <<cvars, last, ovars>>

\* The future handle_request returned for a request whose ID was in the
\* registry already.
handle_request_duplicate(f) ==
    /\ panicked = "none"
    /\ f \in 1 .. Len(methods)
    /\ Right(f, FALSE)
    /\ svc_last' = Yield(<<"future">>, Ready(Some(Response_error(Some(futs[f].id), invalid_request))))
    /\ methods' = [methods EXCEPT ![f] = "-"]
    /\ UNCHANGED <<state, initializing, init_ok, init_err, shutdown_invoked, exited>>
    /\ UNCHANGED <<cvars, last, ovars>>

\* LspService::poll_ready
LspService_poll_ready ==
    /\ panicked = "none"
    /\ svc_last' = Yield(<<"poll_ready">>, IF state = Exited THEN ExitedError ELSE ReadyOk)
    /\ UNCHANGED <<state, initializing, methods, init_ok, init_err, shutdown_invoked, exited>>
    /\ UNCHANGED <<svars, cvars, last, ovars>>

\* Mutant: the service refuses every call from ShutDown on.
LspService_call_shut(m) ==
    /\ panicked = "none"
    /\ IF state \in {ShutDown, Exited}
       THEN /\ svc_last' = Yield(Call(m), ExitedError)
            /\ UNCHANGED <<state, initializing, methods, init_ok, init_err, shutdown_invoked, exited>>
            /\ UNCHANGED <<svars, cvars>>
       ELSE IF m.kind = "Request"
            THEN /\ handle_request(m)
                 /\ UNCHANGED cvars
            ELSE /\ Insert(m.response)
                 /\ svc_last' = Yield(Call(m), IF panicked' = "none" THEN Ready(None) ELSE Panicked)
                 /\ UNCHANGED <<state, initializing, methods, init_ok, init_err, shutdown_invoked, exited>>
                 /\ UNCHANGED <<request_id, outbound, sink_closed>>
                 /\ UNCHANGED svars
    /\ UNCHANGED <<last, ovars>>

\* Mutant: a client response is handed back as the outgoing message.
LspService_call_echo(m) ==
    /\ panicked = "none"
    /\ IF state = Exited
       THEN /\ svc_last' = Yield(Call(m), ExitedError)
            /\ UNCHANGED <<state, initializing, methods, init_ok, init_err, shutdown_invoked, exited>>
            /\ UNCHANGED <<svars, cvars>>
       ELSE IF m.kind = "Request"
            THEN /\ handle_request(m)
                 /\ UNCHANGED cvars
            ELSE /\ Insert(m.response)
                 /\ svc_last' = Yield(Call(m), Ready(Some(m.response)))
                 /\ UNCHANGED <<state, initializing, methods, init_ok, init_err, shutdown_invoked, exited>>
                 /\ UNCHANGED <<request_id, outbound, sink_closed>>
                 /\ UNCHANGED svars
    /\ UNCHANGED <<last, ovars>>

\* LspService::call(request)
LspService_call(m) ==
    /\ panicked = "none"
    /\ IF state = Exited
       THEN /\ svc_last' = Yield(Call(m), ExitedError)
            /\ UNCHANGED <<state, initializing, methods, init_ok, init_err, shutdown_invoked, exited>>
            /\ UNCHANGED <<svars, cvars>>
       ELSE IF m.kind = "Request"
            THEN /\ handle_request(m)
                 /\ UNCHANGED cvars
            ELSE /\ Insert(m.response)
                 /\ svc_last' = Yield(Call(m), IF panicked' = "none" THEN Ready(None) ELSE Panicked)
                 /\ UNCHANGED <<state, initializing, methods, init_ok, init_err, shutdown_invoked, exited>>
                 /\ UNCHANGED <<request_id, outbound, sink_closed>>
                 /\ UNCHANGED svars
    /\ UNCHANGED <<last, ovars>>

InitService ==
    /\ state = Uninitialized
    /\ initializing = None
    /\ methods = <<>>
    /\ init_ok = 0
    /\ init_err = FALSE
    /\ shutdown_invoked = 0
    /\ exited = FALSE
    /\ svc_last = Yield(<<"new">>, ReadyOk)

\* The service under every sequence of incoming messages, with the futures
\* it returns polled in any order.
NextService ==
    \/ LspService_poll_ready
    \/ \E m \in Incoming : LspService_call(m)
    \/ \E res \in HandlerResults : handle_request_initialize(res)
    \/ \E f \in 1 .. MaxRouted, res \in HandlerResults : handle_request_complete(f, res)
    \/ \E f \in 1 .. MaxRouted : handle_request_aborted(f)
    \/ \E f \in 1 .. MaxRouted : handle_request_duplicate(f)

(***************************************************************************)
(* The operations of the Client handle and their initialization gate       *)
(***************************************************************************)
\* Operations that go through send_notification_initialized and through
\* send_request_initialized, and operations that call send_notification and
\* send_request directly.
GatedNotifications == {"publish_diagnostics", "send_custom_notification"}

GatedRequests ==
    {"register_capability", "unregister_capability", "workspace_folders",
     "configuration", "apply_edit", "send_custom_request"}

UngatedNotifications == {"log_message", "show_message", "telemetry_event"}

UngatedRequests == {"show_message_request"}

\* N::METHOD of the notification each operation sends.
METHOD(op) ==
    CASE op = "publish_diagnostics" -> "textDocument/publishDiagnostics"
      [] op = "send_custom_notification" -> "custom/notification"
      [] op = "log_message" -> "window/logMessage"
      [] op = "show_message" -> "window/showMessage"
      [] op = "telemetry_event" -> "telemetry/event"

\* ClientRequest::notification::<N>(params)
ClientRequest_notification(op) ==
    [method |-> METHOD(op), id |-> None, params |-> None]

\* Mutant: the gate is open from Initializing on.
GateOpen_early(k) == k \in {Initializing, Initialized, ShutDown}

\* if let StateKind::Initialized | StateKind::ShutDown = state.get()
GateOpen(k) == k \in {Initialized, ShutDown}

\* The token an operation passes to send_request: `let token = None`; only
\* send_custom_request takes one from its caller, who passes None here (the
\* token plays no part before the select).
TokensOf(op) == {"none"}

\* The record of an operation: its name, the state at the call, and what it
\* returned at once (None: nothing yet, or nothing at all).
Returned(op, ret) == [op |-> op, state |-> state, ret |-> ret]

\* Client::send_notification, as its effect on the client side: a failed
\* send is only logged.
SendNotification(op) ==
    /\ outbound' = IF sink_closed THEN outbound
                   ELSE Append(outbound, ClientRequest_notification(op))
    /\ UNCHANGED <<request_id, pending_client, sink_closed, calls, panicked>>

\* log_message, show_message, and telemetry_event with data that serializes
\* (ok) or does not.
Client_send_notification(op, ok) ==
    /\ panicked = "none"
    /\ Len(outbound) < MaxSent
    /\ op \in UngatedNotifications
    /\ IF op = "telemetry_event" /\ ~ok
       THEN UNCHANGED cvars
       ELSE SendNotification(op)
    /\ client_last' = Returned(op, None)
    /\ UNCHANGED <<svars, last, lvars, dvars, kvars, xvars, evars, nvars>>

\* publish_diagnostics and send_custom_notification
Client_send_notification_initialized(op) ==
    /\ panicked = "none"
    /\ Len(outbound) < MaxSent
    /\ op \in GatedNotifications
    /\ IF GateOpen(state)
       THEN SendNotification(op)
       ELSE UNCHANGED cvars
    /\ client_last' = Returned(op, None)
    /\ UNCHANGED <<svars, last, lvars, dvars, kvars, xvars, evars, nvars>>

\* What send_request has returned when it reaches its select or ends before.
SendRequestReturned ==
    IF calls' = calls THEN None ELSE calls'[Len(calls')].result

\* show_message_request
Client_show_message_request ==
    /\ panicked = "none"
    /\ Len(outbound) < MaxSent
    /\ SendRequest("none")
    /\ client_last' = Returned("show_message_request", SendRequestReturned)
    /\ UNCHANGED <<svars, last, lvars, dvars, kvars, xvars, evars, nvars>>

\* register_capability, unregister_capability, workspace_folders,
\* configuration, apply_edit and send_custom_request
Client_send_request_initialized(op, tok) ==
    /\ panicked = "none"
    /\ Len(outbound) < MaxSent
    /\ op \in GatedRequests
    /\ IF GateOpen(state)
       THEN /\ SendRequest(tok)
            /\ client_last' = Returned(op, SendRequestReturned)
       ELSE \* request_id.load(..) + 1 only builds the message that is logged
            /\ client_last' = Returned(op, Some(Err(not_initialized_error)))
            /\ UNCHANGED cvars
    /\ UNCHANGED <<svars, last, lvars, dvars, kvars, xvars, evars, nvars>>

\* State::set(k), by the service that shares the state with the client.
State_set(k) ==
    /\ panicked = "none"
    /\ k # state
    /\ state' = k
    /\ UNCHANGED <<initializing, methods, init_ok, init_err, shutdown_invoked, exited, svc_last>>
    /\ UNCHANGED <<svars, cvars, last, ovars>>

InitGate == client_last = [op |-> "new", state |-> Uninitialized, ret |-> None]

\* The operations of the Client handle in every state of the session.
NextGate ==
    \/ \E op \in UngatedNotifications, ok \in BOOLEAN : Client_send_notification(op, ok)
    \/ \E op \in GatedNotifications : Client_send_notification_initialized(op)
    \/ Client_show_message_request
    \/ \E op \in GatedRequests : \E tok \in TokensOf(op) : Client_send_request_initialized(op, tok)
    \/ \E k \in Uninitialized .. Exited : State_set(k)
    \/ MessageStream_drop

\* serde_json::Value, as far as telemetry_event looks at it: its kind, the
\* text of a scalar, the items of an array.
Json(kind, text, elems) == [kind |-> kind, text |-> text, elems |-> elems]

Value_Array(elems) == Json("Array", "", elems)

\* The data a backend passes to telemetry_event, by what to_value gives.
TelemetryValues ==
    {Json("Null", "null", <<>>), Json("Bool", "true", <<>>),
     Json("Number", "42", <<>>), Json("String", "\"event\"", <<>>),
     Value_Array(<<>>), Value_Array(<<Json("Number", "42", <<>>)>>),
     Json("Object", "{}", <<>>)}

\* serde_json::to_value(data): Err for data whose Serialize impl fails.
TelemetryData == {Ok(v) : v \in TelemetryValues} \cup {Err("key must be a string")}

\* Mutant: every value that is not an array is wrapped.
telemetry_params_nonarray(value) ==
    IF value.kind # "Array" THEN Value_Array(<<value>>) ELSE value

\* The params telemetry_event sends for a serialized value.
telemetry_params(value) ==
    IF value.kind # "Null" /\ value.kind # "Array" /\ value.kind # "Object"
    THEN Value_Array(<<value>>)
    ELSE value

\* ClientRequest::notification::<TelemetryEvent>(value)
TelemetryEvent_notification(value) ==
    [method |-> "telemetry/event", id |-> None, params |-> Some(value)]

\* Client::telemetry_event(data), with the params it sends.
Client_telemetry_event(data) ==
    /\ panicked = "none"
    /\ Len(outbound) < MaxSent
    /\ IF data.ok
       THEN /\ outbound' = IF sink_closed THEN outbound
                           ELSE Append(outbound,
                                       TelemetryEvent_notification(telemetry_params(data.val)))
            /\ UNCHANGED <<request_id, pending_client, sink_closed, calls, panicked>>
       ELSE \* log::error!("invalid JSON in `telemetry/event` notification")
            UNCHANGED cvars
    /\ client_last' = Returned("telemetry_event", None)
    /\ UNCHANGED <<svars, last, lvars, dvars, kvars, xvars, evars, nvars>>

\* The telemetry events of a backend in every state of the session.
NextTelemetry ==
    \/ \E data \in TelemetryData : Client_telemetry_event(data)
    \/ \E k \in Uninitialized .. Exited : State_set(k)
    \/ MessageStream_drop

(***************************************************************************)
(* LanguageServerCodec: the frame parser (mod parse), decode and encode    *)
(* A byte is a one-character string; a buffer is a sequence of bytes.      *)
(***************************************************************************)
CR == "\r"

LF == "\n"

\* A byte that is not valid UTF-8 on its own.
NonUtf8 == "<ff>"

DigitChars == <<"0", "1", "2", "3", "4", "5", "6", "7", "8", "9">>

Digits == {DigitChars[k] : k \in 1 .. 10}

\* char::is_whitespace and char::is_control, on the bytes used here.
Whitespace == {" ", "\t", CR, LF}

Control == {"\t", CR, LF}

TOKEN_SPECIALS ==
    {"(", ")", "<", ">", "@", ",", ";", ":", "\\", "\"", "/", "[", "]", "?", ".", "="}

TagContentLength ==
    <<"C", "o", "n", "t", "e", "n", "t", "-", "L", "e", "n", "g", "t", "h">>

TagContentType ==
    <<"C", "o", "n", "t", "e", "n", "t", "-", "T", "y", "p", "e">>

\* nom::IResult of a parser run on buffer s from position i: Ok with the
\* position after the match and its value, Err(Incomplete(Needed::Size(n)))
\* (Needed::Unknown is n = 0), or Err(Error) with its ErrorKind.
POk(i, v) == [t |-> "Ok", i |-> i, v |-> v]

PIncomplete(n) == [t |-> "Incomplete", n |-> n]

PError(k) == [t |-> "Error", k |-> k]

\* The first position from i on whose byte is not in S (Len(s) + 1: none).
RECURSIVE SkipWhile(_, _, _)
SkipWhile(s, i, S) ==
    IF i > Len(s) \/ s[i] \notin S THEN i ELSE SkipWhile(s, i + 1, S)

\* The first position from i on whose byte is in S (Len(s) + 1: none).
RECURSIVE SkipUntil(_, _, _)
SkipUntil(s, i, S) ==
    IF i > Len(s) \/ s[i] \in S THEN i ELSE SkipUntil(s, i + 1, S)

\* bytes::streaming::tag(t)
tag(t, s, i) ==
    LET avail == Len(s) - i + 1
        m == IF avail < Len(t) THEN avail ELSE Len(t)
    IN IF \E j \in 1 .. m : s[i + j - 1] # t[j] THEN PError("Tag")
       ELSE IF avail < Len(t) THEN PIncomplete(Len(t) - avail)
       ELSE POk(i + Len(t), t)

\* character::streaming::space0
space0(s, i) ==
    LET j == SkipWhile(s, i, {" ", "\t"})
    IN IF j > Len(s) THEN PIncomplete(1) ELSE POk(j, SubSeq(s, i, j - 1))

\* character::streaming::digit1
digit1(s, i) ==
    LET j == SkipWhile(s, i, Digits)
    IN IF j > Len(s) THEN PIncomplete(1)
       ELSE IF j = i THEN PError("Digit")
       ELSE POk(j, SubSeq(s, i, j - 1))

\* character::streaming::crlf
crlf(s, i) ==
    LET avail == Len(s) - i + 1
    IN IF avail >= 1 /\ s[i] # CR THEN PError("CrLf")
       ELSE IF avail >= 2 /\ s[i + 1] # LF THEN PError("CrLf")
       ELSE IF avail < 2 THEN PIncomplete(2)
       ELSE POk(i + 2, <<CR, LF>>)

\* character::streaming::char(c)
char(c, s, i) ==
    IF i > Len(s) THEN PIncomplete(1)
    ELSE IF s[i] # c THEN PError("Char")
    ELSE POk(i + 1, c)

\* bytes::streaming::take(n)
take(n, s, i) ==
    LET avail == Len(s) - i + 1
    IN IF avail < n THEN PIncomplete(n - avail) ELSE POk(i + n, SubSeq(s, i, i + n - 1))

\* recognize(many1(satisfy(|c| c is not in Stop))): a streaming satisfy is
\* Incomplete(Unknown) at the end of the buffer.
many1_satisfy(Stop, s, i) ==
    LET j == SkipUntil(s, i, Stop)
    IN IF j > Len(s) THEN PIncomplete(0)
       ELSE IF j = i THEN PError("Satisfy")
       ELSE POk(j, SubSeq(s, i, j - 1))

\* str::parse::<usize> on a run of digits (no run here exceeds usize).
RECURSIVE parse_usize(_)
parse_usize(d) ==
    IF d = <<>> THEN 0
    ELSE LET k == CHOOSE x \in 1 .. 10 : DigitChars[x] = d[Len(d)]
         IN parse_usize(SubSeq(d, 1, Len(d) - 1)) * 10 + (k - 1)

\* The value of F on the value of e, e being evaluated once.
Bind(e, F(_)) == CHOOSE y \in {F(x) : x \in {e}} : TRUE

\* `let (input, v) = parser(input)?;`: the result r of a parser if it is not
\* Ok, and else what follows, F, run on it.
AndThen(e, F(_)) == Bind(e, LAMBDA r : IF r.t # "Ok" THEN r ELSE F(r))

\* parse::content_length
content_length(s, i) ==
    AndThen(tag(TagContentLength, s, i), LAMBDA r1 :
    AndThen(space0(s, r1.i), LAMBDA r2 :
    AndThen(tag(<<":">>, s, r2.i), LAMBDA r3 :
    AndThen(space0(s, r3.i), LAMBDA r4 :
    AndThen(digit1(s, r4.i), LAMBDA r5 :
    AndThen(crlf(s, r5.i), LAMBDA r6 :
        POk(r6.i, parse_usize(r5.v))))))))

\* parse::content_type_mime
content_type_mime(s, i) ==
    AndThen(many1_satisfy(Whitespace \cup {"/"}, s, i), LAMBDA r1 :
    AndThen(tag(<<"/">>, s, r1.i), LAMBDA r2 :
    AndThen(many1_satisfy(Whitespace \cup {";"}, s, r2.i), LAMBDA r3 :
        POk(r3.i, <<r1.v, r3.v>>))))

\* parse::content_type_token
content_type_token(s, i) ==
    many1_satisfy(Control \cup Whitespace \cup TOKEN_SPECIALS, s, i)

\* escaped(none_of("\\\""), '\\', satisfy(|c| c.is_ascii())): the position
\* after the escaped run; 0 for Incomplete(Unknown), -1 for Incomplete(1),
\* -2 for an escape that is not ASCII.
RECURSIVE escaped(_, _)
escaped(s, i) ==
    IF i > Len(s) THEN 0
    ELSE IF s[i] = "\"" THEN i
    ELSE IF s[i] = "\\"
         THEN IF i + 1 > Len(s) THEN -1
              ELSE IF s[i + 1] = NonUtf8 THEN -2
              ELSE escaped(s, i + 2)
    ELSE escaped(s, i + 1)

\* parse::content_type_quoted_string
content_type_quoted_string(s, i) ==
    AndThen(char("\"", s, i), LAMBDA r1 :
    Bind(escaped(s, r1.i), LAMBDA j :
        IF j = 0 THEN PIncomplete(0)
        ELSE IF j = -1 THEN PIncomplete(1)
        ELSE IF j = -2 THEN PError("Satisfy")
        ELSE AndThen(char("\"", s, j), LAMBDA r3 :
                 POk(r3.i, SubSeq(s, i, r3.i - 1)))))

\* tuple((space0, tag(sep), space0))
separator(sep, s, i) ==
    AndThen(space0(s, i), LAMBDA r1 :
    AndThen(tag(<<sep>>, s, r1.i), LAMBDA r2 :
        space0(s, r2.i)))

\* alt((content_type_token, content_type_quoted_string)): the second parser
\* runs on an Error of the first, and the error of alt is the last one.
alt_token_quoted_string(s, i) ==
    Bind(content_type_token(s, i), LAMBDA r :
        IF r.t = "Error" THEN content_type_quoted_string(s, i) ELSE r)

\* parse::content_type_parameter
content_type_parameter(s, i) ==
    AndThen(separator(";", s, i), LAMBDA r1 :
    AndThen(content_type_token(s, r1.i), LAMBDA r2 :
    AndThen(separator("=", s, r2.i), LAMBDA r3 :
    AndThen(alt_token_quoted_string(s, r3.i), LAMBDA r5 :
        POk(r5.i, <<r2.v, r5.v>>)))))

\* many0(content_type_parameter)
RECURSIVE many0_parameter(_, _)
many0_parameter(s, i) ==
    Bind(content_type_parameter(s, i), LAMBDA r :
        IF r.t = "Error" THEN POk(i, <<>>)
        ELSE IF r.t = "Incomplete" THEN r
        ELSE many0_parameter(s, r.i))

\* parse::content_type
content_type(s, i) ==
    AndThen(tag(TagContentType, s, i), LAMBDA r1 :
    AndThen(separator(":", s, r1.i), LAMBDA r2 :
    AndThen(content_type_mime(s, r2.i), LAMBDA r3 :
    AndThen(many0_parameter(s, r3.i), LAMBDA r4 :
    AndThen(crlf(s, r4.i), LAMBDA r5 :
        POk(r5.i, r3.v))))))

\* combinator::opt(content_type)
opt_content_type(s, i) ==
    Bind(content_type(s, i), LAMBDA r :
        IF r.t = "Error" THEN POk(i, None) ELSE r)

\* parse::message on the whole buffer: Ok carries the position of the
\* remaining input and the body.
message(s) ==
    AndThen(content_length(s, 1), LAMBDA r1 :
    AndThen(opt_content_type(s, r1.i), LAMBDA r2 :
    AndThen(crlf(s, r2.i), LAMBDA r3 :
        take(r1.v, s, r3.i))))

\* The JSON values of the messages, serde_json::to_string and
\* serde_json::from_str on them; every other text fails to parse.
JsonValues == {"Value::Object {}", "Value::Array [1,2,3,4,5]"}

to_string(v) ==
    IF v = "Value::Object {}" THEN <<"{", "}">>
    ELSE <<"[", "1", ",", "2", ",", "3", ",", "4", ",", "5", "]">>

\* JSON texts with whitespace that from_str accepts besides the compact ones.
from_str_spaced(msg) ==
    IF msg = <<"{", " ", "}">> THEN {"Value::Object {}"} ELSE {}

from_str(msg) ==
    {v \in JsonValues : to_string(v) = msg} \cup from_str_spaced(msg)

\* usize formatted by `{}`
RECURSIVE format_usize(_)
format_usize(n) ==
    IF n < 10 THEN <<DigitChars[n + 1]>>
    ELSE format_usize(n \div 10) \o <<DigitChars[(n % 10) + 1]>>

\* Mutant: the length is written without the blank line after the header.
encode_short(item) ==
    LET msg == to_string(item)
    IN TagContentLength \o <<":", " ">> \o format_usize(Len(msg)) \o <<CR, LF>> \o msg

\* LanguageServerCodec::encode(item, dst): the bytes it appends to dst,
\* write!(writer, "Content-Length: {}\r\n\r\n{}", msg.len(), msg)
encode(item) ==
    LET msg == to_string(item)
    IN TagContentLength \o <<":", " ">> \o format_usize(Len(msg))
           \o <<CR, LF, CR, LF>> \o msg

\* What decode returns.
DecodeNone == [tag |-> "Ok(None)"]

DecodeSome(v) == [tag |-> "Ok(Some)", v |-> v]

DecodeErr(e) == [tag |-> "Err", e |-> e]

\* The ParseError of a nom ErrorKind.
error_of(code) ==
    CASE code \in {"Digit", "MapRes"} -> "InvalidLength"
      [] code \in {"Char", "IsNot"} -> "InvalidType"
      [] OTHER -> "MissingHeader"

Drop(s, n) == SubSeq(s, n + 1, Len(s))

\* Mutant: the whole buffer is discarded after a header error.
advance_all(s) == <<>>

\* The loop of the error branch: advance by one byte while the buffer is
\* not empty and parse::message returns any Err.
RECURSIVE advance_to_message(_)
advance_to_message(s) ==
    IF s # <<>> /\ message(s).t # "Ok" THEN advance_to_message(Drop(s, 1)) ELSE s

\* Mutant: a parsed frame takes the rest of the buffer with it.
decode_clear(buf, remaining) ==
    IF remaining > Len(buf)
    THEN [ret |-> DecodeNone, src |-> buf, remaining_msg_bytes |-> remaining]
    ELSE Bind(message(buf), LAMBDA r :
            CASE r.t = "Incomplete" ->
                    [ret |-> DecodeNone, src |-> buf,
                     remaining_msg_bytes |-> IF r.n > 0 THEN r.n ELSE remaining]
              [] r.t = "Error" ->
                    [ret |-> DecodeErr(error_of(r.k)), src |-> advance_to_message(buf),
                     remaining_msg_bytes |-> remaining]
              [] r.t = "Ok" ->
                    [ret |-> IF NonUtf8 \in {r.v[k] : k \in 1 .. Len(r.v)}
                             THEN DecodeErr("Utf8")
                             ELSE IF from_str(r.v) = {} THEN DecodeErr("Body")
                             ELSE DecodeSome(CHOOSE v \in from_str(r.v) : TRUE),
                     src |-> <<>>,
                     remaining_msg_bytes |-> 0])

\* Mutant: a frame whose body is rejected stays in the buffer.
decode_bad_body_kept(buf, remaining) ==
    IF remaining > Len(buf)
    THEN [ret |-> DecodeNone, src |-> buf, remaining_msg_bytes |-> remaining]
    ELSE Bind(message(buf), LAMBDA r :
            CASE r.t = "Incomplete" ->
                    [ret |-> DecodeNone, src |-> buf,
                     remaining_msg_bytes |-> IF r.n > 0 THEN r.n ELSE remaining]
              [] r.t = "Error" ->
                    [ret |-> DecodeErr(error_of(r.k)), src |-> advance_to_message(buf),
                     remaining_msg_bytes |-> remaining]
              [] r.t = "Ok" ->
                    IF NonUtf8 \in {r.v[k] : k \in 1 .. Len(r.v)}
                    THEN [ret |-> DecodeErr("Utf8"), src |-> buf,
                          remaining_msg_bytes |-> 0]
                    ELSE IF from_str(r.v) = {}
                    THEN [ret |-> DecodeErr("Body"), src |-> buf,
                          remaining_msg_bytes |-> 0]
                    ELSE [ret |-> DecodeSome(CHOOSE v \in from_str(r.v) : TRUE),
                          src |-> Drop(buf, r.i - 1),
                          remaining_msg_bytes |-> 0])

\* Mutant: after a parsed frame the threshold is the length of that frame.
decode_threshold_kept(buf, remaining) ==
    IF remaining > Len(buf)
    THEN [ret |-> DecodeNone, src |-> buf, remaining_msg_bytes |-> remaining]
    ELSE Bind(message(buf), LAMBDA r :
            CASE r.t = "Incomplete" ->
                    [ret |-> DecodeNone, src |-> buf,
                     remaining_msg_bytes |-> IF r.n > 0 THEN r.n ELSE remaining]
              [] r.t = "Error" ->
                    [ret |-> DecodeErr(error_of(r.k)), src |-> advance_to_message(buf),
                     remaining_msg_bytes |-> remaining]
              [] r.t = "Ok" ->
                    [ret |-> IF NonUtf8 \in {r.v[k] : k \in 1 .. Len(r.v)}
                             THEN DecodeErr("Utf8")
                             ELSE IF from_str(r.v) = {} THEN DecodeErr("Body")
                             ELSE DecodeSome(CHOOSE v \in from_str(r.v) : TRUE),
                     src |-> Drop(buf, r.i - 1),
                     remaining_msg_bytes |-> r.i - 1])

\* LanguageServerCodec::decode(src) with the decoder's remaining_msg_bytes:
\* what it returns, the buffer and the decoder afterwards.
decode(buf, remaining) ==
    IF remaining > Len(buf)
    THEN [ret |-> DecodeNone, src |-> buf, remaining_msg_bytes |-> remaining]
    ELSE Bind(message(buf), LAMBDA r :
            CASE r.t = "Incomplete" ->
                    [ret |-> DecodeNone, src |-> buf,
                     remaining_msg_bytes |-> IF r.n > 0 THEN r.n ELSE remaining]
              [] r.t = "Error" ->
                    [ret |-> DecodeErr(error_of(r.k)), src |-> advance_to_message(buf),
                     remaining_msg_bytes |-> remaining]
              [] r.t = "Ok" ->
                    [ret |-> IF NonUtf8 \in {r.v[k] : k \in 1 .. Len(r.v)}
                             THEN DecodeErr("Utf8")
                             ELSE IF from_str(r.v) = {} THEN DecodeErr("Body")
                             ELSE DecodeSome(CHOOSE v \in from_str(r.v) : TRUE),
                     src |-> Drop(buf, r.i - 1),
                     remaining_msg_bytes |-> 0])

\* A frame as the peer may write it: with a Content-Type line, or with
\* another header line, after the Content-Length line.
ContentTypeLine ==
    TagContentType \o <<":", " ", "a", "/", "b", ";", " ", "c", "=", "\"", "d", "\"", CR, LF>>

UnknownHeaderLine == <<"X", "-", "A", ":", " ", "1", CR, LF>>

Frame(line, msg) ==
    TagContentLength \o <<":", " ">> \o format_usize(Len(msg)) \o <<CR, LF>>
        \o line \o <<CR, LF>> \o msg

\* Bytes that are no frame and do not contain `Content-Length`.
Garbage ==
    {<<"1", "a">>,
     <<"C", "o", "n", "t", "e", "n", "t", "-", "L", "e", "n", "g", "t">>,
     <<"x", CR, LF, CR, LF>>}

\* Frames of the peer that encode does not produce: extra header lines, a
\* body with whitespace, a body that is no JSON, a body that is not UTF-8.
PeerFrames ==
    {Frame(ContentTypeLine, to_string("Value::Object {}")),
     Frame(UnknownHeaderLine, to_string("Value::Object {}")),
     Frame(<<>>, <<"{", " ", "}">>),
     Frame(<<>>, <<"{">>),
     Frame(<<>>, <<NonUtf8>>)}

\* LanguageServerCodec::encode(item, dst) by the peer, onto the input.
Codec_encode(item) ==
    /\ wire = <<>>
    /\ items < MaxItems
    /\ wire' = encode(item)
    /\ items' = items + 1
    /\ UNCHANGED <<src, remaining_msg_bytes, decoded>>
    /\ UNCHANGED <<svars, cvars, last, lvars, gvars, kvars, xvars, evars, nvars>>

\* The peer writes other bytes onto the input.
Peer_write(bytes) ==
    /\ wire = <<>>
    /\ items < MaxItems
    /\ wire' = bytes
    /\ items' = items + 1
    /\ UNCHANGED <<src, remaining_msg_bytes, decoded>>
    /\ UNCHANGED <<svars, cvars, last, lvars, gvars, kvars, xvars, evars, nvars>>

\* The bytes after which a read may end before the end of the input: inside
\* a header name, after the colon, inside and after the length, between CR
\* and LF, after a line, inside the body.
BreakBytes == {"-", ":", "1", CR, LF}

\* The framed reader appends the next k bytes of the input to the buffer:
\* all of it, or a part that ends with one of the bytes above.
Read(k) ==
    /\ k \in 1 .. Len(wire)
    /\ k < Len(wire) => wire[k] \in BreakBytes
    /\ src' = src \o SubSeq(wire, 1, k)
    /\ wire' = Drop(wire, k)
    /\ UNCHANGED <<remaining_msg_bytes, decoded, items>>
    /\ UNCHANGED <<svars, cvars, last, lvars, gvars, kvars, xvars, evars, nvars>>

\* LanguageServerCodec::decode(src)
Codec_decode ==
    /\ \E d \in {decode(src, remaining_msg_bytes)} :
          /\ decoded' = d.ret
          /\ src' = d.src
          /\ remaining_msg_bytes' = d.remaining_msg_bytes
    /\ UNCHANGED <<wire, items>>
    /\ UNCHANGED <<svars, cvars, last, lvars, gvars, kvars, xvars, evars, nvars>>

InitCodec ==
    /\ src = <<>>
    /\ remaining_msg_bytes = 0
    /\ wire = <<>>
    /\ items = 0
    /\ decoded = DecodeNone

\* The decoder on a byte stream that the peer fills with frames and garbage.
NextCodec ==
    \/ \E item \in JsonValues : Codec_encode(item)
    \/ \E bytes \in Garbage \cup PeerFrames : Peer_write(bytes)
    \/ \E k \in 1 .. Len(wire) : Read(k)
    \/ Codec_decode

(***************************************************************************)
(* TokenCanceller and CancellationToken                                    *)
(***************************************************************************)
\* What the oneshot::Receiver behind the Shared future yields when polled:
\* Ok(()) once a value was sent, Err(Canceled) once the Sender was dropped
\* without sending.
Receiver_poll(channel) ==
    CASE channel = "sent" -> "Ready(Ok(()))"
      [] channel = "closed" -> "Ready(Err(Canceled))"
      [] OTHER -> "Pending"

\* TokenCanceller::new; `calls` and `returned` count the calls of cancel()
\* begun and returned, `signals` the values sent on the channel.
TokenCanceller_new ==
    [cancelled |-> FALSE, sender |-> Some("Sender"), channel |-> "open",
     alive |-> TRUE, pc |-> "idle", calls |-> 0, returned |-> 0, signals |-> 0]

\* Mutant: cancel() sends on every call.
TokenCanceller_cancel_resend ==
    /\ canceller.alive
    /\ canceller.pc = "idle"
    /\ canceller.calls < MaxCancels
    /\ canceller' = [canceller EXCEPT !.channel = "sent",
                                      !.signals = @ + 1,
                                      !.calls = @ + 1,
                                      !.pc = "store"]
    /\ UNCHANGED tokens
    /\ UNCHANGED <<svars, cvars, last, lvars, gvars, dvars, xvars, evars, nvars>>

\* TokenCanceller::cancel up to the store: self.sender.take() and, with a
\* sender, sender.send(()); without one the call returns.
TokenCanceller_cancel_send ==
    /\ canceller.alive
    /\ canceller.pc = "idle"
    /\ canceller.calls < MaxCancels
    /\ IF canceller.sender # None
       THEN canceller' = [canceller EXCEPT !.sender = None,
                                           !.channel = "sent",
                                           !.signals = @ + 1,
                                           !.calls = @ + 1,
                                           !.pc = "store"]
       ELSE canceller' = [canceller EXCEPT !.calls = @ + 1,
                                           !.returned = @ + 1]
    /\ UNCHANGED tokens
    /\ UNCHANGED <<svars, cvars, last, lvars, gvars, dvars, xvars, evars, nvars>>

\* TokenCanceller::cancel, the rest: self.cancelled.store(true, SeqCst)
TokenCanceller_cancel_store ==
    /\ canceller.pc = "store"
    /\ canceller' = [canceller EXCEPT !.cancelled = TRUE,
                                      !.returned = @ + 1,
                                      !.pc = "idle"]
    /\ UNCHANGED tokens
    /\ UNCHANGED <<svars, cvars, last, lvars, gvars, dvars, xvars, evars, nvars>>

\* TokenCanceller::token: a token shares the flag and the future; the record
\* keeps how many calls of cancel() had returned when it was made.
TokenCanceller_token ==
    /\ canceller.alive
    /\ canceller.pc = "idle"
    /\ Len(tokens) < MaxTokens
    /\ tokens' = Append(tokens, [born |-> canceller.returned,
                                 is_cancelled |-> None, wait |-> None])
    /\ UNCHANGED canceller
    /\ UNCHANGED <<svars, cvars, last, lvars, gvars, dvars, xvars, evars, nvars>>

\* The TokenCanceller goes out of scope: a sender still in it is dropped.
TokenCanceller_dropped ==
    /\ canceller.alive
    /\ canceller.pc = "idle"
    /\ canceller' = [canceller EXCEPT !.alive = FALSE,
                                      !.sender = None,
                                      !.channel = IF canceller.sender # None
                                                  THEN "closed" ELSE @]
    /\ UNCHANGED tokens
    /\ UNCHANGED <<svars, cvars, last, lvars, gvars, dvars, xvars, evars, nvars>>

\* CancellationToken::is_cancelled on token t
CancellationToken_is_cancelled(t) ==
    /\ t \in 1 .. Len(tokens)
    /\ tokens' = [tokens EXCEPT ![t].is_cancelled = Some(canceller.cancelled)]
    /\ UNCHANGED canceller
    /\ UNCHANGED <<svars, cvars, last, lvars, gvars, dvars, xvars, evars, nvars>>

\* A poll of the future of CancellationToken::wait on token t:
\* future.await.map_err(anyhow::Error::msg)?; Ok(())
CancellationToken_wait(t) ==
    /\ t \in 1 .. Len(tokens)
    /\ tokens' = [tokens EXCEPT ![t].wait =
                      Some(CASE Receiver_poll(canceller.channel) = "Ready(Ok(()))" -> "Ready(Ok(()))"
                             [] Receiver_poll(canceller.channel) = "Ready(Err(Canceled))" -> "Ready(Err(anyhow))"
                             [] OTHER -> "Pending")]
    /\ UNCHANGED canceller
    /\ UNCHANGED <<svars, cvars, last, lvars, gvars, dvars, xvars, evars, nvars>>

InitToken ==
    /\ canceller = TokenCanceller_new
    /\ tokens = <<>>

\* One canceller, its owner and the holders of its tokens.
NextToken ==
    \/ TokenCanceller_cancel_send
    \/ TokenCanceller_cancel_store
    \/ TokenCanceller_token
    \/ TokenCanceller_dropped
    \/ \E t \in 1 .. MaxTokens : CancellationToken_is_cancelled(t)
    \/ \E t \in 1 .. MaxTokens : CancellationToken_wait(t)

(***************************************************************************)
(* The transport loop: ingress, egress and the exit condition.             *)
(* transport.rs is not part of the sources at hand; this section follows   *)
(* the specification's description of the loop.  The side channel is the   *)
(* mpsc channel of LspService::new: `outbound` keeps every message pushed  *)
(* to it, and `drained` counts those the loop has taken from its front.    *)
(***************************************************************************)
\* The incoming messages of a peer, by what the service does with them: a
\* request is answered, an exit notification sets the state to Exited.
PeerMessages == {"request", "exit"}

\* The messages in the side channel that egress has not taken yet.
SideChannel == SubSeq(outbound, drained + 1, Len(outbound))

\* How many messages ingress has read.
Received ==
    Len(responses) + Cardinality({k \in 1 .. Len(written) : written[k].from = "response"})
        + (IF state = Exited THEN 1 ELSE 0)

\* The response ingress captures for the n-th message it reads.
ResponseTo(n) ==
    [from |-> "response", msg |-> [method |-> "", id |-> Some(n), params |-> None]]

\* What egress writes for a message of the side channel.
FromSideChannel(m) == [from |-> "messages", msg |-> m]

\* The peer writes a message to the input.
Peer_send(m) ==
    /\ ~eof
    /\ Len(input) + Received < MaxInput
    /\ input' = Append(input, m)
    /\ UNCHANGED <<eof, transport, responses, drained, written, stopped_with>>
    /\ UNCHANGED <<svars, cvars, last, lvars, gvars, dvars, kvars, evars, nvars>>

\* The peer closes the input.
Peer_close ==
    /\ ~eof
    /\ eof' = TRUE
    /\ UNCHANGED <<input, transport, responses, drained, written, stopped_with>>
    /\ UNCHANGED <<svars, cvars, last, lvars, gvars, dvars, kvars, evars, nvars>>

\* Ingress: read the next message, call the service, capture its response.
Transport_ingress ==
    /\ transport = "serving"
    /\ state # Exited
    /\ input # <<>>
    /\ input' = Tail(input)
    /\ IF Head(input) = "exit"
       THEN /\ state' = Exited
            /\ UNCHANGED responses
       ELSE /\ responses' = Append(responses, ResponseTo(Received + 1))
            /\ UNCHANGED state
    /\ UNCHANGED <<initializing, methods, init_ok, init_err, shutdown_invoked, exited, svc_last>>
    /\ UNCHANGED <<eof, transport, drained, written, stopped_with>>
    /\ UNCHANGED <<svars, cvars, last, gvars, dvars, kvars, evars, nvars>>

\* The exit condition: the input signals EOF or the state is Exited; ingress
\* stops.
Transport_stop ==
    /\ transport = "serving"
    /\ state = Exited \/ (eof /\ input = <<>>)
    /\ transport' = "draining"
    /\ stopped_with' = Some(SideChannel)
    /\ UNCHANGED <<input, eof, responses, drained, written>>
    /\ UNCHANGED <<svars, cvars, last, lvars, gvars, dvars, kvars, evars, nvars>>

\* Egress writes a response produced by ingress.
Transport_egress_response ==
    /\ transport # "closed"
    /\ responses # <<>>
    /\ written' = Append(written, Head(responses))
    /\ responses' = Tail(responses)
    /\ UNCHANGED <<input, eof, transport, drained, stopped_with>>
    /\ UNCHANGED <<svars, cvars, last, lvars, gvars, dvars, kvars, evars, nvars>>

\* Egress writes the next message of the side channel.
Transport_egress_message ==
    /\ transport # "closed"
    /\ SideChannel # <<>>
    /\ written' = Append(written, FromSideChannel(Head(SideChannel)))
    /\ drained' = drained + 1
    /\ UNCHANGED <<input, eof, transport, responses, stopped_with>>
    /\ UNCHANGED <<svars, cvars, last, lvars, gvars, dvars, kvars, evars, nvars>>

\* Mutant: the loop closes the sink as soon as ingress has stopped.
Transport_close_at_once ==
    /\ transport = "draining"
    /\ transport' = "closed"
    /\ sink_closed' = TRUE
    /\ UNCHANGED <<request_id, pending_client, outbound, calls, panicked>>
    /\ UNCHANGED <<input, eof, responses, drained, written, stopped_with>>
    /\ UNCHANGED <<svars, last, lvars, gvars, dvars, kvars, evars, nvars>>

\* Ingress has stopped and the side channel is empty: the loop closes the
\* sink and ends, and the receiving side of the side channel goes with it.
Transport_close ==
    /\ transport = "draining"
    /\ SideChannel = <<>>
    /\ transport' = "closed"
    /\ sink_closed' = TRUE
    /\ UNCHANGED <<request_id, pending_client, outbound, calls, panicked>>
    /\ UNCHANGED <<input, eof, responses, drained, written, stopped_with>>
    /\ UNCHANGED <<svars, last, lvars, gvars, dvars, kvars, evars, nvars>>

InitTransport ==
    /\ input = <<>>
    /\ eof = FALSE
    /\ transport = "serving"
    /\ responses = <<>>
    /\ drained = 0
    /\ written = <<>>
    /\ stopped_with = None

\* The loop between a peer and a backend that logs through its Client.
NextTransport ==
    \/ \E m \in PeerMessages : Peer_send(m)
    \/ Peer_close
    \/ Transport_ingress
    \/ Transport_stop
    \/ Transport_egress_response
    \/ Transport_egress_message
    \/ Transport_close
    \/ \E op \in UngatedNotifications : Client_send_notification(op, TRUE)

(***************************************************************************)
(* jsonrpc::ErrorCode as an enum, with its conversions to and from i64     *)
(***************************************************************************)
MethodNotFound == -32601
InvalidParams == -32602
ContentModified == -32801

\* The variants without a field, and ServerError(n).
Named(variant) == [variant |-> variant, n |-> 0]

ServerError(n) == [variant |-> "ServerError", n |-> n]

NamedVariants ==
    {"ParseError", "InvalidRequest", "MethodNotFound", "InvalidParams",
     "InternalError", "RequestCancelled", "ContentModified"}

\* The integers that `From<i64>` maps to a variant without a field.
ReservedCodes ==
    {ParseError, InvalidRequest, MethodNotFound, InvalidParams,
     InternalError, RequestCancelled, ContentModified}

\* The error codes of a run: every named variant, and ServerError(n) for n
\* at and around the reserved codes, the code of not_initialized_error and 0.
ErrorCodes ==
    {Named(v) : v \in NamedVariants}
        \cup {ServerError(n + d) :
                n \in ReservedCodes \cup {ServerNotInitialized, 0},
                d \in (0 - CodeSpread) .. CodeSpread}

\* ErrorCode::code
ErrorCode_code(c) ==
    CASE c.variant = "ParseError" -> ParseError
      [] c.variant = "InvalidRequest" -> InvalidRequest
      [] c.variant = "MethodNotFound" -> MethodNotFound
      [] c.variant = "InvalidParams" -> InvalidParams
      [] c.variant = "InternalError" -> InternalError
      [] c.variant = "RequestCancelled" -> RequestCancelled
      [] c.variant = "ContentModified" -> ContentModified
      [] c.variant = "ServerError" -> c.n

\* Mutant: every integer becomes a ServerError.
ErrorCode_from_open(code) == ServerError(code)

\* impl From<i64> for ErrorCode
ErrorCode_from(code) ==
    CASE code = ParseError -> Named("ParseError")
      [] code = InvalidRequest -> Named("InvalidRequest")
      [] code = MethodNotFound -> Named("MethodNotFound")
      [] code = InvalidParams -> Named("InvalidParams")
      [] code = InternalError -> Named("InternalError")
      [] code = RequestCancelled -> Named("RequestCancelled")
      [] code = ContentModified -> Named("ContentModified")
      [] OTHER -> ServerError(code)

\* An error code is made by a handler or by the library.
ErrorCode_make(c) ==
    /\ error_code' = [made |-> Some(c), wire |-> None, back |-> None]
    /\ UNCHANGED <<svars, cvars, last, lvars, gvars, dvars, kvars, xvars, nvars>>

\* impl Serialize for ErrorCode: self.code().serialize(serializer)
ErrorCode_serialize ==
    /\ error_code.made # None
    /\ error_code.wire = None
    /\ error_code' = [error_code EXCEPT
                         !.wire = {ErrorCode_code(c) : c \in error_code.made}]
    /\ UNCHANGED <<svars, cvars, last, lvars, gvars, dvars, kvars, xvars, nvars>>

\* impl Deserialize for ErrorCode: Ok(ErrorCode::from(code))
ErrorCode_deserialize ==
    /\ error_code.wire # None
    /\ error_code.back = None
    /\ error_code' = [error_code EXCEPT
                         !.back = {ErrorCode_from(n) : n \in error_code.wire}]
    /\ UNCHANGED <<svars, cvars, last, lvars, gvars, dvars, kvars, xvars, nvars>>

InitErrorCode == error_code = [made |-> None, wire |-> None, back |-> None]

\* Error codes on their way to the peer and back.
NextErrorCode ==
    \/ \E c \in ErrorCodes : ErrorCode_make(c)
    \/ ErrorCode_serialize
    \/ ErrorCode_deserialize

(***************************************************************************)
(* The cancellation path of send_request on 64-bit request IDs             *)
(***************************************************************************)
\* A u64 written as hi * 2^31 + lo with 0 <= lo <= i32::MAX.
U64(hi, lo) == [hi |-> hi, lo |-> lo]

\* Request IDs on both sides of i32::MAX, up to MaxHi * 2^31 + i32::MAX.
RequestIds == {U64(h, l) : h \in 0 .. MaxHi, l \in {0, 1, I32_MAX}}

\* Mutant: `id as i32`, which keeps the low 32 bits of the ID.
i32_as_cast(n) == Some(IF n.hi % 2 = 0 THEN n.lo ELSE (n.lo - I32_MAX) - 1)

\* i32::try_from(id): Ok(id) for id <= i32::MAX, Err otherwise.
i32_try_from(n) == IF n.hi = 0 THEN Some(n.lo) ELSE None

\* lsp::CancelParams { id: NumberOrString::Number(id) }, with the request it
\* was made for.
CancelParams(n, id) == [request |-> n, id |-> id]

\* send_request up to its select, for a counter that has reached n:
\* fetch_add returns n.
Client_send_request_fetch_add(n) ==
    /\ Len(id_calls) < MaxCalls
    /\ \A k \in 1 .. Len(id_calls) : id_calls[k].id # n
    /\ id_calls' = Append(id_calls, [id |-> n, pc |-> "select"])
    /\ UNCHANGED cancel_sent
    /\ UNCHANGED <<svars, cvars, last, lvars, gvars, dvars, kvars, xvars, evars>>

\* The token_wait arm of call k: convert the ID, send $/cancelRequest.
Client_send_request_token_wait(k) ==
    /\ k \in 1 .. Len(id_calls)
    /\ id_calls[k].pc = "select"
    /\ LET id == i32_try_from(id_calls[k].id)
       IN IF id = None
          THEN \* .expect("error converting u64 to i32")
               /\ id_calls' = [id_calls EXCEPT ![k].pc = "panicked"]
               /\ UNCHANGED cancel_sent
          ELSE /\ id_calls' = [id_calls EXCEPT ![k].pc = "cancelled"]
               /\ cancel_sent' =
                     IF sink_closed THEN cancel_sent
                     ELSE Append(cancel_sent,
                                 CancelParams(id_calls[k].id, CHOOSE x \in id : TRUE))
    /\ UNCHANGED <<svars, cvars, last, lvars, gvars, dvars, kvars, xvars, evars>>

\* The response arm of call k.
Client_send_request_response_waiter(k) ==
    /\ k \in 1 .. Len(id_calls)
    /\ id_calls[k].pc = "select"
    /\ id_calls' = [id_calls EXCEPT ![k].pc = "answered"]
    /\ UNCHANGED cancel_sent
    /\ UNCHANGED <<svars, cvars, last, lvars, gvars, dvars, kvars, xvars, evars>>

InitCancelPath ==
    /\ id_calls = <<>>
    /\ cancel_sent = <<>>

NextCancelPath ==
    \/ \E n \in RequestIds : Client_send_request_fetch_add(n)
    \/ \E k \in 1 .. MaxCalls : Client_send_request_token_wait(k)
    \/ \E k \in 1 .. MaxCalls : Client_send_request_response_waiter(k)
    \/ MessageStream_drop

Init ==
    /\ InitServer /\ InitClient /\ InitService /\ InitGate /\ InitCodec
    /\ InitToken /\ InitTransport /\ InitErrorCode /\ InitCancelPath

\* The pending-server registry under every interleaving of its operations.
SpecServer == Init /\ [][NextServer]_vars

\* ServerRequests::execute, called at most MaxFairExec times in a run.
ServerRequests_execute_bounded(id) ==
    /\ Len(futs) < MaxFairExec
    /\ ServerRequests_execute(id)

NextServerFair ==
    \/ \E id \in Ids : ServerRequests_execute_bounded(id)
    \/ \E f \in 1 .. MaxFairExec, res \in HandlerResults : PollComplete(f, res)
    \/ \E f \in 1 .. MaxFairExec : PollAborted(f)
    \/ \E f \in 1 .. MaxFairExec : PollRight(f)
    \/ \E id \in Ids : ServerRequests_cancel(id)
    \/ ServerRequests_cancel_all

\* The registry under a scheduler that polls every future returned by
\* execute until it has yielded.
SpecServerFair ==
    /\ Init
    /\ [][NextServerFair]_vars
    /\ \A f \in 1 .. MaxFairExec :
          WF_vars((\E res \in HandlerResults : PollComplete(f, res))
                      \/ PollAborted(f) \/ PollRight(f))

\* The cancellation path of send_request for IDs around i32::MAX.
SpecCancelPath == Init /\ [][NextCancelPath]_vars

\* The client handle's request path against a peer that answers anything.
SpecClient == Init /\ [][NextClient]_vars

\* The service with its lifecycle state, its registries and its backend.
SpecService == Init /\ [][NextService]_vars

\* The Client handle against a session state that changes at any time.
SpecGate == Init /\ [][NextGate]_vars

\* The decoder on the input of a peer.
SpecCodec == Init /\ [][NextCodec]_vars

\* Client::telemetry_event on every kind of data.
SpecTelemetry == Init /\ [][NextTelemetry]_vars

\* Error codes serialized and deserialized.
SpecErrorCode == Init /\ [][NextErrorCode]_vars

\* A canceller and its tokens under every order of their operations.
SpecToken == Init /\ [][NextToken]_vars

\* The transport loop under every schedule.
SpecTransport == Init /\ [][NextTransport]_vars

\* The transport loop under a fair scheduler: the loop's own steps (the stop
\* of ingress, a write of egress, the close) are taken when they stay
\* enabled.
SpecTransportFair ==
    /\ SpecTransport
    /\ WF_vars(Transport_stop)
    /\ WF_vars(Transport_egress_response)
    /\ WF_vars(Transport_egress_message)
    /\ WF_vars(Transport_close)

(***************************************************************************)
(* Properties of the pending-server registry                               *)
(***************************************************************************)
Futs == 1 .. Len(futs)

Done(f) == futs[f].out # None

\* The response of a Left future that was not aborted is the handler's own.
NaturalResponse(f) ==
    /\ futs[f].branch = "Left"
    /\ ~futs[f].aborted
    /\ futs[f].handler = "completed"
    /\ \E res \in HandlerResults :
          /\ futs[f].res = Some(res)
          /\ futs[f].out = Some(Response_from_parts(futs[f].id, res))

CancelledResponse(f) ==
    futs[f].out = Some(Response_error(Some(futs[f].id), request_cancelled))

\* C1: execute(id, h) on an ID that already has an entry changes neither the
\* table nor any earlier future, returns the Right future, which resolves to
\* error(id, InvalidRequest) without h ever being polled; a Left future that
\* completes unaborted yields from_parts(id, its handler's result).
C1_DuplicateRejected ==
    /\ [][\A id \in Ids :
            (last' = <<"execute", id>> /\ pending_server[id] # 0) =>
                /\ pending_server' = pending_server
                /\ Len(futs') = Len(futs) + 1
                /\ SubSeq(futs', 1, Len(futs)) = futs
                /\ futs'[Len(futs')].branch = "Right"
                /\ futs'[Len(futs')].id = id]_vars
    /\ [](\A f \in Futs :
            /\ futs[f].branch = "Right" =>
                  /\ futs[f].handler = "dropped"
                  /\ futs[f].res = None
                  /\ futs[f].out \subseteq
                        {Response_error(Some(futs[f].id), invalid_request)}
            /\ (futs[f].branch = "Left" /\ Done(f) /\ ~futs[f].aborted) =>
                  NaturalResponse(f))

\* A first handler answered with its own result, and a second execute with
\* the same ID, made while the first was registered, answered with -32600.
C1_Witness ==
    \E f, g \in Futs :
        /\ f < g
        /\ futs[f].id = futs[g].id
        /\ NaturalResponse(f)
        /\ futs[g].branch = "Right"
        /\ futs[g].out = Some(Response_error(Some(futs[g].id), invalid_request))
        /\ futs[g].out # futs[f].out

\* C2: for every request ID at most one handler is live (started by execute,
\* neither completed nor aborted).
C2_AtMostOneLiveHandler ==
    \A id \in Ids : Cardinality({f \in Futs : Live(f) /\ futs[f].id = id}) <= 1

\* C3: the table has an entry for an ID exactly when a handler started by
\* execute for that ID is live.
C3_EntryIffLive ==
    \A id \in Ids :
        pending_server[id] # 0 <=> \E f \in Futs : Live(f) /\ futs[f].id = id

\* C4: cancel(n) issued while a handler for n is live aborts that handler,
\* and an aborted handler's future resolves to error(n, RequestCancelled).
C4_CancelLiveHandler ==
    /\ [][\A id \in Ids : \A f \in Futs :
            (last'[1] \in {"cancel", "cancel_absent"} /\ last'[2] = id
                /\ Live(f) /\ futs[f].id = id) => futs'[f].aborted]_vars
    /\ [](\A f \in Futs : (futs[f].aborted /\ Done(f)) => CancelledResponse(f))

\* C5: cancel_all empties the table and aborts the handler of every entry it
\* held; an aborted handler's future resolves to error(id, RequestCancelled)
\* with its own ID.
C5_CancelAll ==
    /\ [][last' = <<"cancel_all", 0>> =>
            /\ \A id \in Ids : pending_server'[id] = 0
            /\ \A id \in Ids : pending_server[id] # 0 =>
                  /\ futs[pending_server[id]].id = id
                  /\ futs'[pending_server[id]].aborted
            /\ Len(futs') = Len(futs)]_vars
    /\ [](\A f \in Futs :
            (futs[f].branch = "Left" /\ futs[f].aborted) =>
                /\ futs[f].out \subseteq
                      {Response_error(Some(futs[f].id), request_cancelled)}
                /\ futs[f].res = None)

\* cancel_all has just run on a table that held two handlers.
C5_Witness ==
    /\ last = <<"cancel_all", 0>>
    /\ \A id \in Ids : pending_server[id] = 0
    /\ \E f, g \in Futs :
          /\ futs[f].id # futs[g].id
          /\ futs[f].aborted /\ futs[g].aborted
          /\ futs[f].aborts = 1 /\ futs[g].aborts = 1
          /\ ~Done(f) /\ ~Done(g)

\* C6: cancel(id) on an ID without an entry changes neither the table nor any
\* future (no handler aborted, no response altered), and no abort handle is
\* ever triggered twice.
C6_CancelAbsentNoOp ==
    /\ [][\A id \in Ids :
            (last'[1] \in {"cancel", "cancel_absent"} /\ last'[2] = id
                /\ pending_server[id] = 0) =>
                UNCHANGED <<pending_server, futs>>]_vars
    /\ [](\A f \in Futs : futs[f].aborts <= 1)

\* cancel(id) has just run for an ID whose handler had already answered,
\* while the handler of another ID is registered and live.
C6_Witness ==
    \E id \in Ids :
        /\ last = <<"cancel_absent", id>>
        /\ \E f \in Futs : futs[f].id = id /\ NaturalResponse(f)
        /\ \E g \in Futs : futs[g].id # id /\ Live(g) /\ pending_server[futs[g].id] = g

(***************************************************************************)
(* Properties of the pending-client registry and of send_request           *)
(***************************************************************************)
Calls == 1 .. Len(calls)

\* How many $/cancelRequest notifications for `id` were pushed to the sink.
CancelCount(id) ==
    Cardinality({k \in 1 .. Len(outbound) : outbound[k] = Cancel_notification(id)})

\* What the response arm yields for the response in call c's slot.
ResponseOutcome(c) ==
    {and_then_from_value(Response_into_parts(r)[2]) : r \in calls[c].rx}

\* C7: an insert of a response whose ID has an entry removes the entry and
\* puts exactly that response into the slot of the call that registered the
\* ID, touching no other call; every other insert (unknown ID, repeated
\* response, null ID) changes neither the table nor any call.
C7_InsertResolvesWaiter ==
    [][\A r \in PeerResponses :
          ClientRequests_insert(r) =>
              IF r.id # None /\ (\E n \in r.id : pending_client[n] # 0)
              THEN \E n \in r.id :
                      LET c == pending_client[n]
                      IN /\ pending_client' = [pending_client EXCEPT ![n] = 0]
                         /\ calls' = [calls EXCEPT ![c].rx = Some(r),
                                         ![c].first = calls'[c].first]
                         /\ panicked' = "none"
              ELSE UNCHANGED <<pending_client, calls, panicked>>]_vars

\* C8: every entry belongs to the send_request call that drew its ID, and no
\* entry is left for the ID of a call that has finished.
C8_NoEntryAfterFinish ==
    /\ \A n \in ClientIds :
          pending_client[n] # 0 =>
              /\ pending_client[n] \in Calls
              /\ calls[pending_client[n]].id = n
    /\ \A c \in Calls : calls[c].pc = "done" => pending_client[calls[c].id] = 0

\* C9 as stated, for runs in which the sink stays open: a call whose token
\* fired before any response with its ID was inserted ends with -32800, its
\* entry removed and exactly one $/cancelRequest with its ID in the sink.
C9_TokenFirstCancels ==
    \A c \in Calls :
        (calls[c].first = "token" /\ calls[c].pc = "done" /\ ~sink_closed) =>
            /\ calls[c].result = Some(Err(request_cancelled))
            /\ pending_client[calls[c].id] = 0
            /\ CancelCount(calls[c].id) = 1

\* C9 as amended: a call that polled its select when the token had fired
\* and no response was in its slot ends with -32800, its entry removed, and
\* exactly one $/cancelRequest with its ID pushed to the sink, or none if
\* the sink was closed.
C9_TokenOnlyCancels ==
    \A c \in Calls :
        (calls[c].pc = "done" /\ calls[c].ready = {"token"}
            /\ calls[c].tok = "cancelled") =>
            /\ calls[c].result = Some(Err(request_cancelled))
            /\ pending_client[calls[c].id] = 0
            /\ calls[c].rx = None
            /\ \/ CancelCount(calls[c].id) = 1
               \/ CancelCount(calls[c].id) = 0 /\ sink_closed

\* A call cancelled by its token: -32800, and the request followed by one
\* $/cancelRequest with the same ID in the sink.
C9_Witness ==
    \E c \in Calls :
        /\ calls[c].pc = "done"
        /\ calls[c].ready = {"token"}
        /\ calls[c].tok = "cancelled"
        /\ calls[c].result = Some(Err(request_cancelled))
        /\ CancelCount(calls[c].id) = 1
        /\ \E j, k \in 1 .. Len(outbound) :
              /\ j < k
              /\ outbound[j] = ClientRequest_request(calls[c].id)
              /\ outbound[k] = Cancel_notification(calls[c].id)

\* C10 as stated: a call whose response was inserted before its token fired
\* ends with the outcome of that response, and no $/cancelRequest with its
\* ID is in the sink.
C10_ResponseFirstDelivers ==
    \A c \in Calls :
        (calls[c].first = "response" /\ calls[c].tok = "cancelled"
            /\ calls[c].pc = "done") =>
            /\ calls[c].result \in {Some(o) : o \in ResponseOutcome(c)}
            /\ CancelCount(calls[c].id) = 0

\* C10 as amended: a call that polled its select when the response was in
\* its slot and the token's wait future was not ready ends with the outcome
\* of that response, and no $/cancelRequest with its ID is in the sink.
C10_ResponseOnlyDelivers ==
    \A c \in Calls :
        (calls[c].pc = "done" /\ calls[c].ready = {"response"}) =>
            /\ calls[c].result \in {Some(o) : o \in ResponseOutcome(c)}
            /\ \A o \in ResponseOutcome(c) : o.ok => o.val = "null"
            /\ CancelCount(calls[c].id) = 0

\* A call with a token that got its response, deserialized, before the
\* token fired.
C10_Witness ==
    \E c \in Calls :
        /\ calls[c].pc = "done"
        /\ calls[c].ready = {"response"}
        /\ calls[c].first = "response"
        /\ calls[c].tok = "armed"
        /\ calls[c].result = Some(Ok("null"))
        /\ CancelCount(calls[c].id) = 0

\* C11: every $/cancelRequest in the sink is preceded, strictly earlier in
\* the sink, by the request with the same ID; and a call that took its
\* cancellation path with the sink open has both in the sink.
C11_CancelAfterRequest ==
    /\ \A k \in 1 .. Len(outbound) : \A n \in ClientIds :
          outbound[k] = Cancel_notification(n) =>
              \E j \in 1 .. (k - 1) : outbound[j] = ClientRequest_request(n)
    /\ \A c \in Calls :
          (calls[c].pc = "done" /\ calls[c].result = Some(Err(request_cancelled))
              /\ ~sink_closed) =>
              \E j, k \in 1 .. Len(outbound) :
                  /\ j < k
                  /\ outbound[j] = ClientRequest_request(calls[c].id)
                  /\ outbound[k] = Cancel_notification(calls[c].id)

\* Two calls in flight, the later one cancelled: its $/cancelRequest is the
\* last message of the sink, behind both requests.
C11_Witness ==
    /\ Len(outbound) >= 3
    /\ \E c, d \in Calls :
          /\ c < d
          /\ calls[c].pc = "select"
          /\ calls[d].pc = "done"
          /\ calls[d].result = Some(Err(request_cancelled))
          /\ outbound[Len(outbound)] = Cancel_notification(calls[d].id)
          /\ \E i, j \in 1 .. (Len(outbound) - 1) :
                /\ i < j
                /\ outbound[i] = ClientRequest_request(calls[c].id)
                /\ outbound[j] = ClientRequest_request(calls[d].id)

\* C12: the k-th send_request call draws ID k-1 from the counter, so the
\* calls of a run have pairwise distinct IDs, no ID at or above the counter
\* has an entry, and ClientRequests::wait never finds its ID occupied.
C12_DistinctIds ==
    /\ request_id = Len(calls)
    /\ \A c \in Calls : calls[c].id = c - 1
    /\ \A c, d \in Calls : c # d => calls[c].id # calls[d].id
    /\ \A n \in ClientIds : n >= request_id => pending_client[n] = 0
    /\ panicked # "concurrent waits for the same request ID"

\* Two calls waiting at the same time, each under its own ID.
C12_Witness ==
    \E c, d \in Calls :
        /\ c # d
        /\ calls[c].pc = "select" /\ calls[d].pc = "select"
        /\ pending_client[calls[c].id] = c
        /\ pending_client[calls[d].id] = d
        /\ calls[c].id = 0 /\ calls[d].id = 1
        /\ request_id = 2

(***************************************************************************)
(* Properties of the service and of the lifecycle state                    *)
(***************************************************************************)
\* The messages of the methods that return a result.
RequestMessages == {m \in ServerRequests : m.method \in RequestMethods}

\* A call that neither changes the state nor reaches the backend: no handler
\* is stored or started, none is aborted.
Untouched ==
    UNCHANGED <<state, pending_server, futs, initializing, methods, init_ok,
                init_err, shutdown_invoked, exited>>

\* The future or the response a call yielded carries the ID `id`.
CarriesId(ret, id, fs) ==
    \/ ret.tag = "ready" /\ \E r \in ret.out : r.id = id
    \/ ret.tag = "execute" /\ Some(fs[ret.fut].id) = id
    \/ ret.tag = "initialize" /\ Some(ret.id) = id

\* C13: an exit notification handled in a state other than Exited leaves
\* the state Exited, and every poll_ready and every call made after an exit
\* notification was handled yields ExitedError.
C13_ExitedRefusesAll ==
    /\ [][\A m \in ServerRequests :
            (m.method = "exit" /\ state # Exited /\ LspService_call(m)) =>
                state' = Exited]_vars
    /\ [][exited =>
            /\ LspService_poll_ready => svc_last'.ret = ExitedError
            /\ \A m \in Incoming :
                  LspService_call(m) => svc_last'.ret = ExitedError]_vars

\* C14: the state never decreases, except from Initializing to
\* Uninitialized when the initialize handler returns an error; and once
\* Exited it stays Exited.
C14_StateMonotonic ==
    [][/\ state' < state =>
            /\ state = Initializing
            /\ state' = Uninitialized
            /\ \E res \in HandlerResults : ~res.ok /\ handle_request_initialize(res)
       /\ state = Exited => state' = Exited]_vars

\* C15: the backend's initialize returns Ok at most once in a run.
C15_InitializeOnce == init_ok <= 1

\* An initialize that failed, a retry that succeeded, and a further
\* initialize that was refused.
C15_Witness ==
    /\ init_err
    /\ init_ok = 1
    /\ state = Initialized
    /\ svc_last.op = <<"call", "initialize", TRUE>>
    /\ svc_last.ret.tag = "ready"

C18_RefusedAfterShutdown ==
    [][\A m \in RequestMessages :
          (state = ShutDown /\ ~exited /\ LspService_call(m)) =>
              /\ svc_last'.ret = Ready(Some(Response_error(m.id, Error_new(InvalidRequest))))
              /\ Untouched]_vars

\* A second shutdown refused with -32600 after the first succeeded.
C18_Witness ==
    /\ state = ShutDown
    /\ shutdown_invoked = 1
    /\ ~exited
    /\ svc_last = Yield(<<"call", "shutdown", TRUE>>,
                        Ready(Some(Response_error(Some(1), Error_new(InvalidRequest)))))

\* C19: in state Uninitialized or Initializing, every call with a request
\* other than initialize yields the error -32002 "Server not initialized"
\* with the request's ID, and changes neither the state nor the registry
\* nor the backend's handlers.
C19_RefusedBeforeInitialized ==
    [][\A m \in RequestMessages :
          (m.method # "initialize" /\ state \in {Uninitialized, Initializing}
              /\ LspService_call(m)) =>
              /\ svc_last'.ret =
                    Ready(Some(Response_error(m.id,
                        [code |-> ServerNotInitialized,
                         message |-> "Server not initialized"])))
              /\ Untouched]_vars

\* A request refused with -32002 while the initialize handler runs.
C19_Witness ==
    /\ state = Initializing
    /\ initializing = Some(1)
    /\ svc_last = Yield(<<"call", "textDocument/hover", TRUE>>,
                        Ready(Some(Response_error(Some(2),
                            [code |-> ServerNotInitialized,
                             message |-> "Server not initialized"]))))

C21_GateSuppresses ==
    [][/\ \A op \in GatedNotifications :
            Client_send_notification_initialized(op) =>
                /\ outbound' # outbound => state \in {Initialized, ShutDown}
                /\ state \in {Uninitialized, Initializing, Exited} =>
                      UNCHANGED <<outbound, pending_client, request_id, calls>>
       /\ \A op \in GatedRequests : \A tok \in TokensOf(op) :
            Client_send_request_initialized(op, tok) =>
                /\ outbound' # outbound => state \in {Initialized, ShutDown}
                /\ state \in {Uninitialized, Initializing, Exited} =>
                      /\ UNCHANGED <<outbound, pending_client, request_id, calls>>
                      /\ client_last'.ret =
                            Some(Err([code |-> ServerNotInitialized,
                                      message |-> "Server not initialized"]))]_vars

\* apply_edit refused with -32002 after exit, when a message had been sent
\* before.
C21_Witness ==
    /\ client_last = [op |-> "apply_edit", state |-> Exited,
                      ret |-> Some(Err([code |-> ServerNotInitialized,
                                        message |-> "Server not initialized"]))]
    /\ Len(outbound) = 1
    /\ request_id = 1

\* C22: while the state is Uninitialized no step places a message on the
\* outbound sink.
C22_UninitializedSilent ==
    [][state = Uninitialized => outbound' = outbound]_vars

(***************************************************************************)
(* The response of ServerRequests::execute                                 *)
(***************************************************************************)
\* C23: every response a future of execute(id, h) has yielded carries id;
\* and when h completed with Ok(v) or Err(e), the response is ok(id, v) or
\* error(id, e).
C23_ResponseCarriesId ==
    \A f \in Futs :
        Done(f) =>
            /\ \A r \in futs[f].out : Response_id(r) = Some(futs[f].id)
            /\ futs[f].handler = "completed" =>
                  \E res \in futs[f].res :
                      futs[f].out =
                          Some(IF res.ok THEN Response_ok(futs[f].id, res.val)
                               ELSE Response_error(Some(futs[f].id), res.err))

\* Three futures of execute(1, ..) that yielded the handler's error, the
\* cancellation and the rejection of a duplicate.
C23_Witness ==
    \E f, g, h \in Futs :
        /\ futs[f].id = 1 /\ futs[g].id = 1 /\ futs[h].id = 1
        /\ futs[f].out = Some(Response_error(Some(1), internal_error))
        /\ futs[f].handler = "completed"
        /\ futs[g].out = Some(Response_error(Some(1), request_cancelled))
        /\ futs[h].out = Some(Response_error(Some(1), invalid_request))

(***************************************************************************)
(* Properties of the frame codec                                           *)
(***************************************************************************)
\* Frames that are valid for the decoder, each with the value of its body.
ValidFrames ==
    {<<encode(v), v>> : v \in JsonValues}
        \cup {<<Frame(ContentTypeLine, to_string("Value::Object {}")), "Value::Object {}">>,
              <<Frame(<<>>, <<"{", " ", "}">>), "Value::Object {}">>}

\* C24: a decode of a buffer that holds garbage without `Content-Length`
\* followed by a valid frame returns the error MissingHeader and leaves the
\* frame at the front of the buffer; the next decode returns the frame's
\* value.
C24_GarbageRecovery ==
    /\ [][\A g \in Garbage : \A f \in ValidFrames :
            (src = g \o f[1] /\ Codec_decode) =>
                /\ decoded' = DecodeErr("MissingHeader")
                /\ src' = f[1]]_vars
    /\ [][\A f \in ValidFrames :
            (decoded = DecodeErr("MissingHeader") /\ src = f[1] /\ Codec_decode) =>
                /\ decoded' = DecodeSome(f[2])
                /\ src' = <<>>]_vars

\* The garbage is gone, the error was reported and the frame of the array
\* is at the front of the buffer.
C24_Witness ==
    /\ decoded = DecodeErr("MissingHeader")
    /\ src = encode("Value::Array [1,2,3,4,5]")
    /\ items = 2
    /\ wire = <<>>

\* C25: encode emits `Content-Length: <n>`, CR LF CR LF and the n bytes of
\* the JSON text, and a decode of a buffer that holds exactly these bytes
\* returns the value and empties the buffer.
C25_RoundTrip ==
    /\ [][Codec_encode("Value::Object {}") =>
            wire' = <<"C", "o", "n", "t", "e", "n", "t", "-", "L", "e", "n", "g", "t", "h",
                      ":", " ", "2", CR, LF, CR, LF, "{", "}">>]_vars
    /\ [][Codec_encode("Value::Array [1,2,3,4,5]") =>
            wire' = <<"C", "o", "n", "t", "e", "n", "t", "-", "L", "e", "n", "g", "t", "h",
                      ":", " ", "1", "1", CR, LF, CR, LF,
                      "[", "1", ",", "2", ",", "3", ",", "4", ",", "5", "]">>]_vars
    /\ [][\A v \in JsonValues :
            (src = encode(v) /\ Codec_decode) =>
                /\ decoded' = DecodeSome(v)
                /\ src' = <<>>]_vars

\* The frame of the array, the only bytes written, has been decoded.
C25_Witness ==
    /\ decoded = DecodeSome("Value::Array [1,2,3,4,5]")
    /\ src = <<>>
    /\ wire = <<>>
    /\ items = 1

\* The header block of the frame at the front of s: up to the first blank
\* line; and the length its Content-Length line declares.
RECURSIVE BlankLine(_, _)
BlankLine(s, k) ==
    IF k + 3 > Len(s) \/ SubSeq(s, k, k + 3) = <<CR, LF, CR, LF>> THEN k
    ELSE BlankLine(s, k + 1)

HeaderLength(s) == BlankLine(s, 1) + 3

DeclaredLength(s) ==
    LET c == SkipUntil(s, 1, {":"})
        d == SkipUntil(s, c, Digits)
        e == SkipWhile(s, d, Digits)
    IN parse_usize(SubSeq(s, d, e - 1))

\* C26: a decode that returns Ok(None) leaves the buffer as it was; a
\* decode that returns a value removes header_length + content_length bytes
\* from the front of the buffer and nothing else.
C26_DecodeFrame ==
    [][(wire' = wire /\ Codec_decode) =>
          /\ decoded' = DecodeNone => src' = src
          /\ decoded'.tag = "Ok(Some)" =>
                /\ HeaderLength(src) + DeclaredLength(src) <= Len(src)
                /\ src' = Drop(src, HeaderLength(src) + DeclaredLength(src))]_vars

\* A value was decoded and bytes of the next item stay in the buffer.
C26_Witness ==
    /\ decoded.tag = "Ok(Some)"
    /\ src # <<>>
    /\ items = 2

\* C27: a frame with a header line other than Content-Length and
\* Content-Type decodes without an error to the value of the same frame
\* without that line.
C27_UnknownHeaderTolerated ==
    [][\A v \in JsonValues :
          (src = Frame(UnknownHeaderLine, to_string(v)) /\ Codec_decode) =>
              decoded' = DecodeSome(v)]_vars

(***************************************************************************)
(* Properties of the cancellation token                                    *)
(***************************************************************************)
Toks == 1 .. Len(tokens)

\* C28: once a call of cancel() has returned, the flag is set, one signal
\* has been sent, and every token, made before or after, reads
\* is_cancelled() = true and finds its wait future ready with Ok; a further
\* call of cancel() changes nothing and sends no second signal.
C28_CancelIdempotent ==
    /\ [](canceller.returned >= 1 =>
            /\ canceller.cancelled
            /\ canceller.signals = 1
            /\ Receiver_poll(canceller.channel) = "Ready(Ok(()))")
    /\ [](canceller.signals <= 1)
    /\ [][canceller.returned >= 1 =>
            /\ \A t \in Toks :
                  /\ CancellationToken_is_cancelled(t) => tokens'[t].is_cancelled = Some(TRUE)
                  /\ CancellationToken_wait(t) => tokens'[t].wait = Some("Ready(Ok(()))")
            /\ TokenCanceller_cancel_send =>
                  /\ canceller'.cancelled = canceller.cancelled
                  /\ canceller'.channel = canceller.channel
                  /\ canceller'.signals = canceller.signals
                  /\ canceller'.sender = canceller.sender
                  /\ canceller'.returned = canceller.returned + 1
                  /\ tokens' = tokens]_vars

\* cancel() has returned twice; a token made before the first call and one
\* made after it have both read the flag and polled their wait future.
C28_Witness ==
    /\ canceller.returned = 2
    /\ \E t, u \in Toks :
          /\ tokens[t].born = 0
          /\ tokens[u].born >= 1
          /\ tokens[t].is_cancelled = Some(TRUE) /\ tokens[t].wait = Some("Ready(Ok(()))")
          /\ tokens[u].is_cancelled = Some(TRUE) /\ tokens[u].wait = Some("Ready(Ok(()))")

\* C29: the wait future of a call's token is ready, and a call ends on its
\* cancellation path, only if cancel() was called on the token's canceller.
C29_WaitOnlyAfterCancel ==
    \A c \in Calls :
        /\ token_wait_ready(calls[c].tok) => calls[c].tok = "cancelled"
        /\ (calls[c].pc = "done" /\ "token" \in calls[c].ready) =>
              calls[c].tok = "cancelled"

(***************************************************************************)
(* Properties of the transport loop                                        *)
(***************************************************************************)
\* The messages of the side channel that egress has written, in order.
WrittenMessages ==
    SelectSeq(written, LAMBDA w : w.from = "messages")

C31_TelemetryWrapsScalars ==
    [][\A v \in TelemetryValues :
          (Client_telemetry_event(Ok(v)) /\ ~sink_closed) =>
              /\ Len(outbound') = Len(outbound) + 1
              /\ outbound'[Len(outbound')].method = "telemetry/event"
              /\ outbound'[Len(outbound')].params =
                    Some(IF v.kind \in {"Bool", "Number", "String"}
                         THEN Json("Array", "", <<v>>)
                         ELSE v)]_vars

\* A number went out wrapped and a null went out as it is.
C31_Witness ==
    /\ Len(outbound) = 2
    /\ outbound[1].params = Some(Value_Array(<<Json("Number", "42", <<>>)>>))
    /\ outbound[2].params = Some(Json("Null", "null", <<>>))

(***************************************************************************)
(* Properties of ErrorCode                                                 *)
(***************************************************************************)
\* C32 as stated: every error code that was converted to its integer and
\* back is the code it was.
C32_CodeRoundTrip ==
    \A c \in error_code.made :
        error_code.back # None => error_code.back = Some(c)

\* C32 as amended: a code that was converted to its integer and back is the
\* code it was unless it is ServerError(n) with n the integer of a variant
\* without a field, which comes back as that variant; and the integer of
\* what comes back is the integer that went out.
C32_CodeRoundTripCanonical ==
    \A c \in error_code.made : \A b \in error_code.back :
        /\ ~(c.variant = "ServerError" /\ c.n \in ReservedCodes) => b = c
        /\ (c.variant = "ServerError" /\ c.n \in ReservedCodes) =>
              /\ b.variant \in NamedVariants
              /\ b # c
        /\ ErrorCode_code(b) = ErrorCode_code(c)
        /\ error_code.wire = Some(ErrorCode_code(c))

\* ServerError(-32700) went out and came back as ParseError.
C32_Witness ==
    /\ error_code.made = Some(ServerError(ParseError))
    /\ error_code.back = Some(Named("ParseError"))

(***************************************************************************)
(* Properties of the decoder's error recovery and of its threshold         *)
(***************************************************************************)
\* The prefixes of an encoded frame that hold the whole `Content-Length`
\* and not the whole frame.
PartialFrames ==
    UNION {{SubSeq(encode(v), 1, k) :
                k \in Len(TagContentLength) .. (Len(encode(v)) - 1)} : v \in JsonValues}

\* C33: a decode that reports a header error on garbage followed by the
\* beginning of a frame leaves the buffer at the `Content-Length` of that
\* frame, with the bytes of the frame that were buffered.
C33_RecoveryKeepsPartialFrame ==
    [][\A g \in Garbage : \A part \in PartialFrames :
          (src = g \o part /\ Codec_decode /\ decoded'.tag = "Err") =>
              src' = part]_vars

\* The proper prefixes of the valid frames.
FramePrefixes ==
    UNION {{SubSeq(f[1], 1, k) : k \in 0 .. (Len(f[1]) - 1)} : f \in ValidFrames}

\* C34: frame by frame and chunk by chunk: a decode of a buffer with a
\* complete valid frame at its head returns the value of that frame, never
\* Ok(None) and never an error, and removes that frame and nothing else; a
\* decode of a buffer that holds only the beginning of a valid frame
\* returns Ok(None) and leaves the buffer as it is.  The values of
\* concatenated frames so come out in order, each once.
C34_FramesInOrder ==
    /\ [][\A f \in ValidFrames :
            (Len(src) >= Len(f[1]) /\ SubSeq(src, 1, Len(f[1])) = f[1] /\ Codec_decode) =>
                /\ decoded' = DecodeSome(f[2])
                /\ src' = Drop(src, Len(f[1]))]_vars
    /\ [][(src \in FramePrefixes /\ Codec_decode) =>
                /\ decoded' = DecodeNone
                /\ src' = src]_vars

\* Two frames were in the buffer one after the other; the first has been
\* decoded and the second is at the head of the buffer.
C34_Witness ==
    /\ decoded = DecodeSome("Value::Array [1,2,3,4,5]")
    /\ src = encode("Value::Object {}")
    /\ items = 2
    /\ wire = <<>>

\* C35: every decode returns what a decoder without the threshold returns
\* on the same buffer, and leaves the same buffer.
C35_ThresholdIsOptimisation ==
    [][Codec_decode =>
          /\ decoded' = decode(src, 0).ret
          /\ src' = decode(src, 0).src]_vars

\* C36: every entry of the pending-client table belongs to a send_request
\* call that is still at its select, so the receiver of its one-shot slot is
\* alive, and ClientRequests::insert never hits its expect.
C36_InsertNeverPanics ==
    /\ panicked # "receiver already dropped"
    /\ \A n \in ClientIds :
          pending_client[n] # 0 =>
              /\ pending_client[n] \in Calls
              /\ calls[pending_client[n]].pc = "select"

\* The request with ID n is in the outbound sink.
RequestVisible(n) ==
    \E k \in 1 .. Len(outbound) : outbound[k] = ClientRequest_request(n)

\* Call c has left its select through the cancellation arm.
TookCancellationPath(c) ==
    calls[c].pc = "done" /\ calls[c].result = Some(Err(request_cancelled))

C38_EntriesRemovedAndReuse ==
    /\ \A id \in Ids : (pending_server[id] # 0) ~> (pending_server[id] = 0)
    /\ \A f \in 1 .. MaxFairExec :
          (f \in Futs /\ futs[f].branch = "Left") ~> (f \in Futs /\ Done(f))
    /\ [][\A f \in Futs : Done(f) => futs'[f].out = futs[f].out]_vars
    /\ [](\A f \in Futs : Done(f) => pending_server[futs[f].id] # f)
    /\ [][\A id \in Ids :
            (/\ last' = <<"execute", id>>
             /\ \A f \in Futs : futs[f].id = id => Done(f)) =>
                /\ futs'[Len(futs')].branch = "Left"
                /\ futs'[Len(futs')].id = id
                /\ pending_server'[id] = Len(futs')]_vars

\* An ID was used, its handler completed, and the ID is in use again by a
\* handler that was accepted and is running.
C38_Witness ==
    \E f, g \in Futs :
        /\ f < g
        /\ futs[f].id = futs[g].id
        /\ NaturalResponse(f)
        /\ Live(g)
        /\ pending_server[futs[g].id] = g

\* C39: the token_wait arm of a call whose ID n is at most i32::MAX sends a
\* $/cancelRequest carrying n; that of a call with a larger ID panics and
\* sends nothing; so every $/cancelRequest sent carries the ID of its
\* request, and none was sent for an ID above i32::MAX.
C39_CancelCarriesId ==
    /\ [][\A k \in 1 .. Len(id_calls) :
            Client_send_request_token_wait(k) =>
                IF id_calls[k].id.hi = 0
                THEN /\ id_calls'[k].pc = "cancelled"
                     /\ \/ sink_closed /\ cancel_sent' = cancel_sent
                        \/ /\ ~sink_closed
                           /\ cancel_sent' =
                                 Append(cancel_sent,
                                        CancelParams(id_calls[k].id, id_calls[k].id.lo))
                ELSE /\ id_calls'[k].pc = "panicked"
                     /\ cancel_sent' = cancel_sent]_vars
    /\ [](\A j \in 1 .. Len(cancel_sent) :
            /\ cancel_sent[j].request.hi = 0
            /\ cancel_sent[j].id = cancel_sent[j].request.lo)

\* The call with ID i32::MAX was cancelled and its $/cancelRequest carries
\* 2147483647; the call with ID 2^31 panicked and nothing was sent for it.
C39_Witness ==
    /\ Len(id_calls) = 2
    /\ id_calls[1] = [id |-> U64(0, I32_MAX), pc |-> "cancelled"]
    /\ id_calls[2] = [id |-> U64(1, 0), pc |-> "panicked"]
    /\ cancel_sent = <<CancelParams(U64(0, I32_MAX), I32_MAX)>>

\* Complete frames whose body is not UTF-8 or not JSON.
BadBodyFrames == {Frame(<<>>, <<"{">>), Frame(<<>>, <<NonUtf8>>)}

\* C40: a decode of a buffer that starts with a complete frame whose body is
\* not UTF-8 or not JSON returns an error, removes that frame and nothing
\* else, and sets the threshold to 0; if a valid frame follows, the next
\* decode returns its value.
C40_BadBodySkipped ==
    [][\A f \in BadBodyFrames :
          (Len(src) >= Len(f) /\ SubSeq(src, 1, Len(f)) = f /\ Codec_decode) =>
              /\ decoded' \in {DecodeErr("Utf8"), DecodeErr("Body")}
              /\ src' = Drop(src, Len(f))
              /\ remaining_msg_bytes' = 0
              /\ \A g \in ValidFrames :
                    (Len(src') >= Len(g[1]) /\ SubSeq(src', 1, Len(g[1])) = g[1]) =>
                        decode(src', remaining_msg_bytes').ret = DecodeSome(g[2])]_vars

\* A frame with a body that is not UTF-8 has been rejected and removed, and
\* the frame that followed it is at the head of the buffer.
C40_Witness ==
    /\ decoded = DecodeErr("Utf8")
    /\ src = encode("Value::Object {}")
    /\ remaining_msg_bytes = 0
    /\ items = 2
    /\ wire = <<>>

====
